---- MODULE Spec2Model ----
(***************************************************************************)
(* Model of the sifto worker's LLM orchestration layer: the HTTP endpoints *)
(* (routers/*.py), the provider router (services/model_router.py) and the  *)
(* task orchestrators of the two provider services (claude_service.py,     *)
(* gemini_service.py).  One request is followed from the endpoint to the   *)
(* value returned (or the exception raised) by the orchestrator; every     *)
(* provider call is one step whose outcome is chosen by the environment.   *)
(***************************************************************************)
EXTENDS Integers, Sequences, FiniteSets, TLC

(***************************************************************************)
(* Model identifiers.  A string identifier is kept as its structure:       *)
(* optional surrounding whitespace, a path prefix and the "-"-separated    *)
(* segments that follow it, e.g. "x/models/gemini-2.5-pro" is the path     *)
(* "x/models/" and the segments <<"gemini","2.5","pro">>.  set = FALSE is  *)
(* Python's None.                                                          *)
(***************************************************************************)
Mk(set, pad, path, segs) == [set |-> set, pad |-> pad, path |-> path, segs |-> segs]

MNone == Mk(FALSE, FALSE, "", <<>>)
MEmpty == Mk(TRUE, FALSE, "", <<>>)
MOpus == Mk(TRUE, FALSE, "", <<"claude", "opus", "4", "6">>)
MGpt == Mk(TRUE, FALSE, "", <<"gpt", "4o">>)
MGeminiFlash == Mk(TRUE, FALSE, "", <<"gemini", "2.5", "flash">>)
MGeminiUpper == Mk(TRUE, TRUE, "", <<"Gemini", "2.5", "Flash">>)
MGeminiPath == Mk(TRUE, FALSE, "x/models/", <<"gemini", "2.5", "pro">>)
MGeminiModels == Mk(TRUE, FALSE, "models/", <<"gemini", "2.5", "pro">>)

\* claude_service.py:9-16, the built-in models (defaults of the environment)
facts_model == Mk(TRUE, FALSE, "", <<"claude", "haiku", "4", "5">>)
summary_model == Mk(TRUE, FALSE, "", <<"claude", "sonnet", "4", "6">>)
summary_model_fallback == Mk(TRUE, FALSE, "", <<"claude", "sonnet", "4", "5", "20250929">>)
facts_model_fallback == Mk(TRUE, FALSE, "", <<"claude", "3", "5", "haiku", "20241022">>)
digest_model == summary_model
digest_model_fallback == summary_model_fallback
feed_suggest_model == summary_model
feed_suggest_model_fallback == summary_model_fallback

\* claude_service.py:20-40, the keys of _DEFAULT_MODEL_PRICING
ClaudePricingFamilies ==
  {<<"claude", "haiku", "4", "5">>, <<"claude", "sonnet", "4", "6">>, <<"claude", "opus", "4", "6">>}

\* gemini_service.py:10-25, the keys of _DEFAULT_MODEL_PRICING
GeminiPricingFamilies ==
  {<<"gemini", "3", "flash", "preview">>, <<"gemini", "3.1", "pro", "preview">>,
   <<"gemini", "3", "pro", "preview">>, <<"gemini", "2.5", "flash">>,
   <<"gemini", "2.5", "flash", "lite">>, <<"gemini", "2.5", "pro">>,
   <<"gemini", "2.0", "flash">>, <<"gemini", "2.0", "flash", "lite">>,
   <<"gemini", "1.5", "flash">>, <<"gemini", "1.5", "pro">>}

\* the identifiers a request may carry in its "model" field
ModelIds ==
  {MNone, MEmpty, MGpt, facts_model_fallback, MGeminiFlash, MGeminiUpper, MGeminiPath,
   MGeminiModels}

\* Python truthiness of a str | None value
Truthy(m) == m.set /\ (m.pad \/ m.path # "" \/ m.segs # <<>>)

\* str.lower() on one segment
LowerSeg(s) ==
  CASE s = "Gemini" -> "gemini"
    [] s = "Flash" -> "flash"
    [] OTHER -> s

\* str(model or "").strip().lower()
StripLower(m) ==
  IF Truthy(m)
    THEN Mk(TRUE, FALSE, m.path, [i \in 1..Len(m.segs) |-> LowerSeg(m.segs[i])])
    ELSE MEmpty

\* s.startswith("gemini-")
StartsWithGemini(s) == s.path = "" /\ Len(s.segs) >= 2 /\ s.segs[1] = "gemini"

\* "/models/gemini-" in s
ContainsModelsGemini(s) ==
  s.path \in {"x/models/", "/models/"} /\ Len(s.segs) >= 2 /\ s.segs[1] = "gemini"

\* model_router.py: is_gemini_model
is_gemini_model(model) ==
  LET m == StripLower(model)
  IN  IF m = MEmpty THEN FALSE
      ELSE StartsWithGemini(m) \/ ContainsModelsGemini(m)

\* a variant of `model or default` that always takes the default
OrElseDefault(m, default) == default

\* Python's `model or default`
OrElse(m, default) == IF Truthy(m) THEN m ELSE default

\* the literal model names of the results that come from no provider call
MLiteralNone == Mk(TRUE, FALSE, "", <<"none">>)
MLocalFallback == Mk(TRUE, FALSE, "", <<"local", "fallback">>)
MMultiple == Mk(TRUE, FALSE, "", <<"multiple">>)

\* gemini_service.py: _normalize_model_name
normalize_model_name(model) ==
  LET m == IF Truthy(model) THEN [model EXCEPT !.pad = FALSE] ELSE MEmpty
  IN  IF m.path = "models/" THEN [m EXCEPT !.path = ""]
      ELSE IF m.path \in {"x/models/", "/models/"} THEN [m EXCEPT !.path = ""]
      ELSE m

(***************************************************************************)
(* Text values.  A text is kept as the number of whitespace characters on  *)
(* each side (pad) and the length of what lies between them (len); the     *)
(* first and last character of that core are not whitespace.               *)
(***************************************************************************)
T(pad, len) == [pad |-> pad, len |-> len]
EmptyText == T(0, 0)
\* len(s)
StrLen(t) == 2 * t.pad + t.len
\* s.strip()
Strip(t) == T(0, t.len)

Min(a, b) == IF a <= b THEN a ELSE b
Max(a, b) == IF a >= b THEN a ELSE b

\* claude_service.py:473, the chunk size and overlap of fact extraction
FactsChunkChars == 8000
FactsOverlapChars == 400
\* claude_service.py:866 and gemini_service.py:442, the shortest digest body
MinDigestBodyChars == 80
\* claude_service.py:381, retries of one model after its first attempt
Retries == 2

\* the loop of _split_text_chunks from offset start, as <<start, end>> slices
RECURSIVE SplitFrom(_, _, _, _)
SplitFrom(n, start, chunk_chars, overlap_chars) ==
  LET end == Min(n, start + chunk_chars)
  IN  IF end >= n THEN << <<start, end>> >>
      ELSE << <<start, end>> >>
             \o SplitFrom(n, Max(end - overlap_chars, start + 1), chunk_chars, overlap_chars)

\* claude_service.py: _split_text_chunks, on a text given as a text value
split_text_chunks(text, chunk_chars, overlap_chars) ==
  LET n == StrLen(Strip(text))
  IN  IF n = 0 THEN <<>>
      ELSE IF n <= chunk_chars THEN << <<0, n>> >>
      ELSE SplitFrom(n, 0, chunk_chars, overlap_chars)

(***************************************************************************)
(* Pricing.  A rate is kept in thousandths of a USD per million tokens     *)
(* (1.25 is 1250); every rate of the tables and of the environments below  *)
(* is a multiple of 0.025.  A cost is kept in units of 1e-8 USD, the       *)
(* precision of round(total, 8).                                           *)
(***************************************************************************)
Rates(input, output, cache_write, cache_read) ==
  [input |-> input, output |-> output, cache_write |-> cache_write, cache_read |-> cache_read]

\* the default of _DEFAULT_MODEL_PRICING.get(family, {...})
ZeroRates == Rates(0, 0, 0, 0)

\* claude_service.py:20-40, _DEFAULT_MODEL_PRICING
ClaudeDefaultPricing(family) ==
  CASE family = <<"claude", "haiku", "4", "5">> -> Rates(1000, 5000, 1250, 100)
    [] family = <<"claude", "sonnet", "4", "6">> -> Rates(3000, 15000, 3750, 300)
    [] family = <<"claude", "opus", "4", "6">> -> Rates(5000, 25000, 6250, 500)
    [] OTHER -> ZeroRates

\* gemini_service.py:10-25, _DEFAULT_MODEL_PRICING (no cache rates)
GeminiDefaultPricing(family) ==
  CASE family = <<"gemini", "3", "flash", "preview">> -> Rates(500, 3000, 0, 0)
    [] family = <<"gemini", "3.1", "pro", "preview">> -> Rates(2000, 12000, 0, 0)
    [] family = <<"gemini", "3", "pro", "preview">> -> Rates(2000, 12000, 0, 0)
    [] family = <<"gemini", "2.5", "flash">> -> Rates(300, 2500, 0, 0)
    [] family = <<"gemini", "2.5", "flash", "lite">> -> Rates(100, 400, 0, 0)
    [] family = <<"gemini", "2.5", "pro">> -> Rates(1250, 10000, 0, 0)
    [] family = <<"gemini", "2.0", "flash">> -> Rates(100, 400, 0, 0)
    [] family = <<"gemini", "2.0", "flash", "lite">> -> Rates(75, 300, 0, 0)
    [] family = <<"gemini", "1.5", "flash">> -> Rates(75, 300, 0, 0)
    [] family = <<"gemini", "1.5", "pro">> -> Rates(1250, 5000, 0, 0)
    [] OTHER -> ZeroRates

\* `m == family or m.startswith(family + "-")` on an identifier m
MatchesFamily(m, family) ==
  /\ m.set
  /\ ~m.pad
  /\ m.path = ""
  /\ Len(family) <= Len(m.segs)
  /\ \A i \in DOMAIN family : m.segs[i] = family[i]

\* a variant of the search that takes the shortest matching family
FirstShortestMatch(m, families) ==
  LET matching == {f \in families : MatchesFamily(m, f)}
  IN  IF matching = {} THEN m
      ELSE Mk(TRUE, FALSE, "", CHOOSE f \in matching : \A g \in matching : Len(f) <= Len(g))

\* the first match of `for family in sorted(keys, key=len, reverse=True)`,
\* or m itself when no family matches
FirstLongestMatch(m, families) ==
  LET matching == {f \in families : MatchesFamily(m, f)}
  IN  IF matching = {} THEN m
      ELSE Mk(TRUE, FALSE, "", CHOOSE f \in matching : \A g \in matching : Len(g) <= Len(f))

\* claude_service.py: _normalize_model_family
claude_normalize_model_family(model) ==
  IF ~Truthy(model) THEN MEmpty
  ELSE FirstLongestMatch(model, ClaudePricingFamilies)

\* gemini_service.py: _normalize_model_family
gemini_normalize_model_family(model) ==
  FirstLongestMatch(normalize_model_name(model), GeminiPricingFamilies)

\* the value of an environment variable: unset, "", a text float() rejects,
\* or a number (in thousandths)
EnvUnset == [raw |-> "unset", num |-> 0]
EnvEmpty == [raw |-> "empty", num |-> 0]
EnvJunk == [raw |-> "junk", num |-> 0]
EnvNumber(n) == [raw |-> "number", num |-> n]

\* a variant of _env_optional_float that reads "" as 0.0
env_optional_float_empty_zero(v) ==
  IF v.raw \in {"number", "empty"} THEN [some |-> TRUE, val |-> v.num] ELSE [some |-> FALSE, val |-> 0]

\* _env_optional_float: None, or the float
env_optional_float(v) ==
  IF v.raw = "number" THEN [some |-> TRUE, val |-> v.num] ELSE [some |-> FALSE, val |-> 0]

RateFields == {"input", "output", "cache_write", "cache_read"}
Purposes == {"facts", "summary"}

\* an environment: os.getenv of <PROVIDER>_<PURPOSE>_<FIELD>_PER_MTOK_USD
EnvOf(f) ==
  [prov \in {"ANTHROPIC", "GEMINI"} |-> [purpose \in Purposes |-> [field \in RateFields |-> f[<<prov, purpose, field>>]]]]

\* the environments followed: no override (NoOverrides); the input rate of "facts" set to
\* 10.0 for both providers; for "summary" the output rate set to 0.125, the
\* input rate set to "" and the cache-read rate to a text that is no number;
\* every rate of "facts" set, the input rate to 0
NoOverrides == EnvOf([k \in {"ANTHROPIC", "GEMINI"} \X Purposes \X RateFields |-> EnvUnset])
EnvChoices ==
  { NoOverrides,
    EnvOf([k \in {"ANTHROPIC", "GEMINI"} \X Purposes \X RateFields |->
             IF k[2] = "facts" /\ k[3] = "input" THEN EnvNumber(10000) ELSE EnvUnset]),
    EnvOf([k \in {"ANTHROPIC", "GEMINI"} \X Purposes \X RateFields |->
             IF k[2] # "summary" THEN EnvUnset
             ELSE IF k[3] = "output" THEN EnvNumber(125)
             ELSE IF k[3] = "input" THEN EnvEmpty
             ELSE IF k[3] = "cache_read" THEN EnvJunk
             ELSE EnvUnset]),
    EnvOf([k \in {"ANTHROPIC", "GEMINI"} \X Purposes \X RateFields |->
             IF k[2] # "facts" THEN EnvUnset
             ELSE IF k[3] = "input" THEN EnvNumber(0)
             ELSE EnvNumber(2500)]) }

\* the loop `for k, v in override_map.items()` of _pricing_for_model
ApplyOverrides(base, overrides, fields, static_source, family) ==
  [rates |-> [field \in RateFields |->
                IF field \in fields /\ env_optional_float(overrides[field]).some
                  THEN env_optional_float(overrides[field]).val
                  ELSE base[field]],
   pricing_source |-> IF \E field \in fields : env_optional_float(overrides[field]).some
                        THEN "env_override" ELSE static_source,
   pricing_model_family |-> family]

\* claude_service.py: _pricing_for_model, under the environment e
claude_pricing_for_model(e, model, purpose) ==
  LET family == claude_normalize_model_family(model)
  IN  ApplyOverrides(ClaudeDefaultPricing(family.segs), e["ANTHROPIC"][purpose], RateFields,
                     "anthropic_static_2026_02", family)

\* gemini_service.py: _pricing_for_model, under the environment e
gemini_pricing_for_model(e, model, purpose) ==
  LET family == gemini_normalize_model_family(model)
  IN  ApplyOverrides(GeminiDefaultPricing(family.segs), e["GEMINI"][purpose], {"input", "output"},
                     "google_aistudio_static_2026_02", family)

\* a usage record
Usage(input_tokens, output_tokens, cache_creation_input_tokens, cache_read_input_tokens) ==
  [input_tokens |-> input_tokens, output_tokens |-> output_tokens,
   cache_creation_input_tokens |-> cache_creation_input_tokens,
   cache_read_input_tokens |-> cache_read_input_tokens]

\* tokens / 1_000_000 * rate, in units of 5e-9 USD
TokenCost(tokens, rate) == tokens * (rate \div 25) * 5

\* round(total, 8) of a total given in units of 5e-9 USD, in units of 1e-8
\* USD; a total halfway between two goes to the even one
Round8(total) ==
  IF total % 2 = 0 THEN total \div 2
  ELSE IF (total \div 2) % 2 = 0 THEN total \div 2
  ELSE (total \div 2) + 1

\* a variant of _estimate_cost_usd without the cache-read term
claude_estimate_cost_usd_no_cache_read(e, model, purpose, usage) ==
  LET p == claude_pricing_for_model(e, model, purpose).rates
  IN  Round8(TokenCost(usage.input_tokens, p.input)
               + TokenCost(usage.output_tokens, p.output)
               + TokenCost(usage.cache_creation_input_tokens, p.cache_write))

\* claude_service.py: _estimate_cost_usd
claude_estimate_cost_usd(e, model, purpose, usage) ==
  LET p == claude_pricing_for_model(e, model, purpose).rates
  IN  Round8(TokenCost(usage.input_tokens, p.input)
               + TokenCost(usage.output_tokens, p.output)
               + TokenCost(usage.cache_creation_input_tokens, p.cache_write)
               + TokenCost(usage.cache_read_input_tokens, p.cache_read))

\* gemini_service.py:217 and 220, the prompt length above which the second
\* tier applies
TierThreshold == 200000

\* a variant of the tier test with `>=` for `>`
gemini_cost_rates_ge(e, model, purpose, usage) ==
  LET p == gemini_pricing_for_model(e, model, purpose).rates
      family == gemini_normalize_model_family(model)
      tier1 == /\ family.segs \in {<<"gemini", "3.1", "pro", "preview">>, <<"gemini", "3", "pro", "preview">>}
               /\ family = Mk(TRUE, FALSE, "", family.segs)
               /\ usage.input_tokens >= TierThreshold
      tier2 == /\ family = Mk(TRUE, FALSE, "", <<"gemini", "2.5", "pro">>)
               /\ usage.input_tokens >= TierThreshold
  IN  IF tier2 THEN Rates(2500, 15000, 0, 0)
      ELSE IF tier1 THEN Rates(4000, 18000, 0, 0)
      ELSE Rates(p.input, p.output, 0, 0)

\* gemini_service.py:217-222, the rates _estimate_cost_usd computes with
gemini_cost_rates(e, model, purpose, usage) ==
  LET p == gemini_pricing_for_model(e, model, purpose).rates
      family == gemini_normalize_model_family(model)
      tier1 == /\ family.segs \in {<<"gemini", "3.1", "pro", "preview">>, <<"gemini", "3", "pro", "preview">>}
               /\ family = Mk(TRUE, FALSE, "", family.segs)
               /\ usage.input_tokens > TierThreshold
      tier2 == /\ family = Mk(TRUE, FALSE, "", <<"gemini", "2.5", "pro">>)
               /\ usage.input_tokens > TierThreshold
  IN  IF tier2 THEN Rates(2500, 15000, 0, 0)
      ELSE IF tier1 THEN Rates(4000, 18000, 0, 0)
      ELSE Rates(p.input, p.output, 0, 0)

\* gemini_service.py: _estimate_cost_usd
gemini_estimate_cost_usd(e, model, purpose, usage) ==
  LET r == gemini_cost_rates(e, model, purpose, usage)
  IN  Round8(TokenCost(usage.input_tokens, r.input) + TokenCost(usage.output_tokens, r.output))

(***************************************************************************)
(* LlmMeta records.  has_calls, has_purpose and has_pricing tell whether   *)
(* the dict has the key "calls", the key "purpose", and the keys           *)
(* "pricing_model_family" and "pricing_source".                            *)
(***************************************************************************)
LlmMeta(provider, model, family, source, usage, cost) ==
  [provider |-> provider, model |-> model, pricing_model_family |-> family,
   pricing_source |-> source, usage |-> usage, estimated_cost_usd |-> cost,
   has_calls |-> FALSE, calls |-> 0, has_purpose |-> FALSE, purpose |-> "", has_pricing |-> TRUE]

NoUsage == Usage(0, 0, 0, 0)
MMixed == Mk(TRUE, FALSE, "", <<"mixed">>)

\* a message of the Anthropic API, as _llm_meta reads it: its model attribute
\* (MNone when missing) and its usage
Message(model, usage) == [model |-> model, usage |-> usage]

\* claude_service.py: _llm_meta, under the environment e
claude_llm_meta_record(e, message, purpose, model) ==
  LET actual_model == OrElse(message.model, model)
      pricing == claude_pricing_for_model(e, actual_model, purpose)
  IN  LlmMeta("anthropic", actual_model, pricing.pricing_model_family, pricing.pricing_source,
              message.usage, claude_estimate_cost_usd(e, actual_model, purpose, message.usage))

\* gemini_service.py: _llm_meta, under the environment e
gemini_llm_meta_record(e, model, purpose, usage) ==
  LET pricing == gemini_pricing_for_model(e, model, purpose)
      actual_model == normalize_model_name(model)
  IN  LlmMeta("google", actual_model, pricing.pricing_model_family, pricing.pricing_source,
              Usage(usage.input_tokens, usage.output_tokens, 0, 0),
              gemini_estimate_cost_usd(e, actual_model, purpose, usage))

\* the llm block the Claude orchestrators write out for a local result
local_llm_meta(provider, model) ==
  [provider |-> provider, model |-> model, pricing_model_family |-> MEmpty,
   pricing_source |-> "", usage |-> NoUsage, estimated_cost_usd |-> 0,
   has_calls |-> FALSE, calls |-> 0, has_purpose |-> FALSE, purpose |-> "", has_pricing |-> FALSE]

\* sum(... for m in valid)
RECURSIVE SumSeq(_)
SumSeq(xs) == IF xs = <<>> THEN 0 ELSE Head(xs) + SumSeq(Tail(xs))

\* a variant of the collapse that takes one of the values whenever there is one
CollapseAny(values, sentinel) ==
  IF values # {} THEN CHOOSE x \in values : TRUE ELSE sentinel

\* claude_service.py:242-245, `next(iter(xs)) if len(xs) == 1 else <sentinel>`
Collapse(values, sentinel) ==
  IF Cardinality(values) = 1 THEN CHOOSE x \in values : TRUE ELSE sentinel

\* claude_service.py: _merge_llm_metas
merge_llm_meta_records(metas, purpose) ==
  IF metas = <<>>
    THEN LlmMeta("none", MLiteralNone, MEmpty, "anthropic_static_2026_02", NoUsage, 0)
    ELSE LET providers == {metas[i].provider : i \in DOMAIN metas}
             models == SelectSeq([i \in DOMAIN metas |-> metas[i].model], Truthy)
             families == {metas[i].pricing_model_family : i \in DOMAIN metas}
             sources == {metas[i].pricing_source : i \in DOMAIN metas}
         IN  [provider |-> Collapse(providers, "mixed"),
              model |-> IF models # <<>> /\ Cardinality({models[i] : i \in DOMAIN models}) = 1
                          THEN models[1] ELSE MMultiple,
              pricing_model_family |-> Collapse(families, MMixed),
              pricing_source |-> Collapse(sources, "mixed"),
              usage |-> Usage(SumSeq([i \in DOMAIN metas |-> metas[i].usage.input_tokens]),
                              SumSeq([i \in DOMAIN metas |-> metas[i].usage.output_tokens]),
                              SumSeq([i \in DOMAIN metas |-> metas[i].usage.cache_creation_input_tokens]),
                              SumSeq([i \in DOMAIN metas |-> metas[i].usage.cache_read_input_tokens])),
              estimated_cost_usd |-> SumSeq([i \in DOMAIN metas |-> metas[i].estimated_cost_usd]),
              has_calls |-> TRUE,
              calls |-> Len(metas),
              has_purpose |-> TRUE,
              purpose |-> purpose,
              has_pricing |-> TRUE]

(***************************************************************************)
(* The merge of the fact lists of the chunks.                              *)
(***************************************************************************)

\* a fact, a string: its words (0 for none: "" or whitespace only), whether
\* whitespace surrounds it, whether it has capital letters, and whether more
\* than one space separates its words
Fact(word, pad, upper, wide) == [word |-> word, pad |-> pad, upper |-> upper, wide |-> wide]

\* a variant of the strip that returns the key of the fact
fact_strip_to_key(fact) ==
  IF fact.word = 0 THEN Fact(0, FALSE, FALSE, FALSE) ELSE Fact(fact.word, FALSE, FALSE, FALSE)

\* `facts[i].strip()`
fact_strip(fact) ==
  IF fact.word = 0 THEN Fact(0, FALSE, FALSE, FALSE) ELSE [fact EXCEPT !.pad = FALSE]

\* a variant of the key that keeps case and spacing
fact_key_exact(fact) ==
  IF fact.word = 0 THEN Fact(0, FALSE, FALSE, FALSE) ELSE [fact EXCEPT !.pad = FALSE]

\* `" ".join(fact.lower().split())`
fact_key(fact) ==
  IF fact.word = 0 THEN Fact(0, FALSE, FALSE, FALSE) ELSE Fact(fact.word, FALSE, FALSE, FALSE)

\* `not fact`
FactIsEmpty(fact) == fact.word = 0

\* `max((len(xs) for xs in fact_lists), default=0)`
MaxLen(fact_lists) ==
  IF fact_lists = <<>> THEN 0
  ELSE CHOOSE n \in {Len(fact_lists[k]) : k \in DOMAIN fact_lists} :
         \A k \in DOMAIN fact_lists : Len(fact_lists[k]) <= n

\* a variant of the loops that goes through the lists one after the other
SlotListMajor(s, n, max_len) == [i |-> s % max_len, list |-> (s \div max_len) + 1]

\* the s-th turn (from 0) of `for i in range(max_len): for facts in fact_lists:`
\* over n lists: the position i (from 0) and the list (from 1)
Slot(s, n, max_len) == [i |-> s \div n, list |-> (s % n) + 1]

\* a variant of the cap with `>` for `>=`
CapReachedGt(merged, max_items) == Len(merged) > max_items

\* `len(merged) >= max_items`
CapReached(merged, max_items) == Len(merged) >= max_items

\* claude_service.py:204-218, the loops of _merge_fact_lists from turn s on:
\* the merged list, for each merged fact the turn it was taken at, and the
\* turns at which a fact was read
RECURSIVE MergeFrom(_, _, _, _, _, _, _, _)
MergeFrom(fact_lists, max_items, max_len, s, seen, merged, from, read) ==
  LET n == Len(fact_lists)
      at == Slot(s, n, max_len)
      facts == fact_lists[at.list]
      fact == fact_strip(facts[at.i + 1])
      key == fact_key(fact)
      out == [merged |-> merged, from |-> from, read |-> read]
  IN  IF s >= n * max_len THEN out
      ELSE IF at.i >= Len(facts) THEN MergeFrom(fact_lists, max_items, max_len, s + 1, seen, merged, from, read)
      ELSE IF FactIsEmpty(fact) \/ key \in seen
             THEN MergeFrom(fact_lists, max_items, max_len, s + 1, seen, merged, from, Append(read, at))
      ELSE IF CapReached(Append(merged, fact), max_items)
             THEN [merged |-> Append(merged, fact), from |-> Append(from, at), read |-> Append(read, at)]
      ELSE MergeFrom(fact_lists, max_items, max_len, s + 1, seen \cup {key}, Append(merged, fact),
                     Append(from, at), Append(read, at))

\* claude_service.py:199-218, _merge_fact_lists
merge_fact_lists(fact_lists, max_items) ==
  MergeFrom(fact_lists, max_items, MaxLen(fact_lists), 0, {}, <<>>, <<>>, <<>>)

\* claude_service.py:522, the max_items of fact extraction
FactsMaxItems == 24

(***************************************************************************)
(* Summary lengths and scores.  A score component is kept in thousandths,  *)
(* a weight in hundredths, the composite score in ten-thousandths.         *)
(***************************************************************************)

\* Python's round() of num / den, den > 0: to the nearest integer, a half to
\* the even one
RoundHalfEven(num, den) ==
  LET q == num \div den
      r == num % den
  IN  IF 2 * r > den \/ (2 * r = den /\ q % 2 = 1) THEN q + 1 ELSE q

\* a variant of the clamp without its lower end
clamp_int_no_floor(v, lo, hi) == Min(hi, v)

\* _clamp_int
clamp_int(v, lo, hi) == Max(lo, Min(hi, v))

\* an int argument, or None
IntArg(n) == [some |-> TRUE, val |-> n]
NoneArg == [some |-> FALSE, val |-> 0]

\* _target_summary_chars, facts given by the sum of their lengths
target_summary_chars(source_text_chars, facts_chars) ==
  IF source_text_chars.some /\ source_text_chars.val > 0
    THEN clamp_int(RoundHalfEven(source_text_chars.val * 16, 100), 220, 1200)
  ELSE IF facts_chars > 0 THEN clamp_int(RoundHalfEven(facts_chars * 9, 10), 220, 900)
  ELSE 300

\* claude_service.py:540, gemini_service.py:317
summary_min_chars(target_chars) == clamp_int(RoundHalfEven(target_chars * 8, 10), 160, 1000)

\* claude_service.py:541, gemini_service.py:318
summary_max_chars(target_chars) == clamp_int(RoundHalfEven(target_chars * 12, 10), 260, 1400)

\* a value of the reply's score_breakdown: no such key, a value float() raises
\* on (null, a list, "high"), NaN (also "nan"), or a number (also "0.7", true)
RawMissing == [kind |-> "missing", val |-> 0]
RawText == [kind |-> "text", val |-> 0]
RawNaN == [kind |-> "nan", val |-> 0]
RawNumber(n) == [kind |-> "number", val |-> n]

\* a float of the breakdown: NaN, or a number
NaN == [nan |-> TRUE, val |-> 0]
Num(n) == [nan |-> FALSE, val |-> n]

\* _clamp01 with default 0.5: both comparisons are false of NaN
clamp01(v) ==
  CASE v.kind \in {"missing", "text"} -> Num(500)
    [] v.kind = "nan" -> NaN
    [] v.kind = "number" -> IF v.val < 0 THEN Num(0) ELSE IF v.val > 1000 THEN Num(1000) ELSE Num(v.val)

ScoreKeys == {"importance", "novelty", "actionability", "reliability", "relevance"}

\* the weights of _summary_composite_score, in hundredths
ScoreWeight(k) ==
  CASE k = "importance" -> 38
    [] k = "novelty" -> 22
    [] k = "actionability" -> 18
    [] k = "reliability" -> 17
    [] k = "relevance" -> 5

\* `total`, in units of 0.00001
ScoreTotal(breakdown) ==
  breakdown["importance"].val * ScoreWeight("importance")
    + breakdown["novelty"].val * ScoreWeight("novelty")
    + breakdown["actionability"].val * ScoreWeight("actionability")
    + breakdown["reliability"].val * ScoreWeight("reliability")
    + breakdown["relevance"].val * ScoreWeight("relevance")

\* `round(total, 4)`: what a float total can round to; a total half-way
\* between two values lies, as a float, on either side of the half
summary_composite_scores(breakdown) ==
  IF \E k \in ScoreKeys : breakdown[k].nan THEN {NaN}
  ELSE LET total == ScoreTotal(breakdown)
       IN  IF total % 10 = 5 THEN {Num(total \div 10), Num(total \div 10 + 1)}
           ELSE {Num(RoundHalfEven(total, 10))}

\* claude_service.py:545-551 and 616-622, the breakdown of the local results
LocalBreakdown ==
  [k \in ScoreKeys |-> IF k \in {"reliability", "relevance"} THEN Num(500) ELSE Num(400)]

(***************************************************************************)
(* The request in flight.                                                  *)
(***************************************************************************)
VARIABLES
  pc,           \* "idle", "calling", "replied" or "done"
  task,         \* the endpoint that received the request
  reqModel,     \* the request's "model" field
  reqKey,       \* the provider's API-key header of the request
  input,        \* the task's input (a content text, or a number of items)
  adapter,      \* the service the endpoint dispatched to
  svcModel,     \* the model argument the service received
  apiKey,       \* whether the service received a usable API key
  digestInput,  \* the input mode and summary limit the digest prompt was built with
  chunkCount,   \* fact extraction: len(chunks)
  chunkIdx,     \* fact extraction: the chunk whose prompt is in flight
  chunkMetas,   \* fact extraction: the model of each successful chunk call
  chunkLog,     \* fact extraction: per chunk, whether its call returned a message and whether its facts were appended
  primary,      \* the prompt in flight: its primary model
  fallback,     \* the prompt in flight: its fallback model
  phase,        \* "primary" or "fallback"
  attempt,      \* the loop index of _call_with_retries
  pendingSleep, \* seconds slept since the last provider call
  callLog,      \* the provider calls made for the prompt in flight
  netCalls,     \* the provider calls made for the request
  message,      \* what the call of the prompt in flight returned
  usedModel,    \* the used_model returned with it
  messageModel, \* the model attribute of the message (MNone when it has none)
  result,       \* what the orchestrator returned or raised
  env,          \* the pricing overrides of the process environment
  metaPurpose,  \* the purpose the LlmMeta records are built for
  pricing,      \* what _pricing_for_model returned for the last record built
  metaRecords,  \* the LlmMeta records built from provider calls
  resultMeta,   \* the LlmMeta record attached to a result
  llmKind,      \* how it was made: "single", "merged" or "local"
  factsPc,      \* fact lists: "idle", "collect", "merged" or "remerged"
  factChunks,   \* fact lists: len(chunks)
  factIdx,      \* fact lists: idx of the loop over the chunks
  allFactLists, \* fact lists: all_fact_lists
  listChunk,    \* fact lists: the idx each list of all_fact_lists was appended at
  maxItems,     \* fact lists: the max_items argument of _merge_fact_lists
  mergeInput,   \* fact lists: the fact_lists argument of the last merge
  mergedFacts,  \* fact lists: what the last merge returned
  mergedFrom,   \* fact lists: the turn of the loops each merged fact was taken at
  factsRead,    \* fact lists: the turns of the loops at which a fact was read
  splitPc,      \* chunking: "idle", "start", "loop" or "done"
  splitText,    \* chunking: the text argument
  splitSize,    \* chunking: chunk_chars and overlap_chars
  splitN,       \* chunking: n, the length of the stripped text
  splitStart,   \* chunking: start
  splitChunks,  \* chunking: chunks, each as the slice <<start, end>> of the text
  sumPc,        \* summary: "idle", "lengths", "scores" or "done"
  sumSource,    \* summary: source_text_chars
  sumFactsChars, \* summary: the characters of the facts
  sumLengths,   \* summary: target_chars, min_chars and max_chars
  scoreRaw,     \* summary: the score_breakdown of the reply
  scoreBreakdown, \* summary: the score_breakdown of the result
  scoreValue,   \* summary: the score of the result
  listsPc,      \* prompt lists: "idle", "called" or "done"
  listsIn,      \* prompt lists: the lists of the request, by their numbers of entries
  listsPrompt,  \* prompt lists: whether a prompt was built, and the entries of its lists
  extractPc,    \* content extraction: "idle", "called", "httpx", "extract", "returned" or "responded"
  extractEnv,   \* content extraction: whether ALLOW_DEV_EXTRACT_PLACEHOLDER is "true"
  downloaded,   \* content extraction: the page that was fetched
  extractSeen,  \* content extraction: the calls made so far and how they ended
  extractResult,   \* content extraction: what extract_body returned
  extractResponse  \* content extraction: the status the endpoint answered with

reqVars == <<task, reqModel, reqKey, input, adapter, svcModel, apiKey>>
chunkVars == <<chunkCount, chunkIdx, chunkMetas, chunkLog>>
callVars == <<primary, fallback, phase, attempt, pendingSleep, callLog, netCalls, message, usedModel, messageModel>>
metaVars == <<env, metaPurpose, pricing, metaRecords, resultMeta, llmKind>>
requestVars == <<pc, reqVars, digestInput, chunkVars, callVars, result>>
\* what a request leaves alone
factVars == <<factsPc, factChunks, factIdx, allFactLists, listChunk, maxItems, mergeInput,
              mergedFacts, mergedFrom, factsRead>>
splitVars == <<splitPc, splitText, splitSize, splitN, splitStart, splitChunks>>
\* the state of the functions followed on their own
summaryVars == <<sumPc, sumSource, sumFactsChars, sumLengths, scoreRaw, scoreBreakdown, scoreValue>>
listVars == <<listsPc, listsIn, listsPrompt>>
extractVars == <<extractPc, extractEnv, downloaded, extractSeen, extractResult, extractResponse>>
pureVars == <<splitVars, summaryVars, listVars, extractVars>>
sideVars == <<metaVars, factVars, pureVars>>
vars == <<requestVars, metaVars, factVars, pureVars>>

Tasks == {"facts", "summary", "digest", "cluster_draft", "feed_rank", "feed_seed", "translate"}

\* the API-key header: missing, empty, or a key
KeyHeaders == {"absent", "", "key"}
\* `headers.get(...) or None` and `headers.get(...) or ""` are both falsy
\* exactly when the header is missing or empty
HasKey(k) == k \notin {"absent", ""}

(***************************************************************************)
(* Provider errors, by the text str(err) carries.                          *)
(***************************************************************************)
\* "http400_long_prompt" is the API's refusal of a prompt over its token limit,
\* whose message quotes the token count
ErrKinds == {"http429", "rate_limit", "http500", "timeout", "http400_long_prompt"}
ErrText(e) ==
  CASE e = "http429" -> {"error code: 429"}
    [] e = "rate_limit" -> {"rate_limit_error"}
    [] e = "http500" -> {"error code: 500"}
    [] e = "timeout" -> {"request timed out"}
    [] e = "http400_long_prompt" -> {"error code: 400 - prompt is too long: 204291 tokens > 200000 maximum"}
    [] OTHER -> {}

\* which of the needles of _is_rate_limit_error a text contains
TextHas429(txt) ==
  txt \in {"error code: 429", "error code: 400 - prompt is too long: 204291 tokens > 200000 maximum"}
TextHasRateLimit(txt) == txt = "rate_limit_error"

\* claude_service.py: _is_rate_limit_error
is_rate_limit_error(e) ==
  \E txt \in ErrText(e) : TextHas429(txt) \/ TextHasRateLimit(txt)

(***************************************************************************)
(* Replies.  A reply is the shape of the text and, for a digest, the       *)
(* subject and body it carries.  "no_content" is an Anthropic message      *)
(* whose content list is empty; "empty_text" is an empty text (Gemini: no  *)
(* candidates); "broken_json" is a text that is no JSON object but holds   *)
(* the "subject": "..." and "body": "..." fields.                          *)
(***************************************************************************)
Reply(shape, subject, body) == [present |-> TRUE, shape |-> shape, subject |-> subject, body |-> body]
NoMsg == [present |-> FALSE, shape |-> "none", subject |-> EmptyText, body |-> EmptyText]
Unread == Reply("unread", EmptyText, EmptyText)

SubjectTexts == {EmptyText, T(1, 0), T(0, 12)}
BodyTexts ==
  {EmptyText, T(1, 0), T(0, 1), T(0, MinDigestBodyChars - 1), T(1, MinDigestBodyChars - 2),
   T(1, MinDigestBodyChars - 1), T(0, MinDigestBodyChars), T(1, MinDigestBodyChars),
   T(0, MinDigestBodyChars + 1)}

PlainReplies == {Reply(sh, EmptyText, EmptyText) : sh \in {"json", "garbage", "empty_text"}}
DigestReplies ==
  {Reply(sh, su, bo) : sh \in {"json", "broken_json"}, su \in SubjectTexts, bo \in BodyTexts}
    \cup {Reply(sh, EmptyText, EmptyText) : sh \in {"garbage", "empty_text"}}

AnthropicReplies(t) ==
  {Reply("no_content", EmptyText, EmptyText)}
    \cup (IF t = "digest" THEN DigestReplies ELSE PlainReplies)
GeminiReplies(t) == IF t = "digest" THEN DigestReplies ELSE PlainReplies

(***************************************************************************)
(* Results.                                                                *)
(***************************************************************************)
NoResult ==
  [status |-> "none", provider |-> "", model |-> MNone, payload |-> "", raisedBy |-> "", input_mode |-> "",
   subject |-> EmptyText, body |-> EmptyText, calls |-> 0, chunk_count |-> 0, chunk_success_count |-> 0]
\* a returned value with its llm block
Returned(provider, model, payload) == [NoResult EXCEPT !.status = "ok", !.provider = provider, !.model = model, !.payload = payload]
\* an exception leaving the orchestrator
Raised(why) == [NoResult EXCEPT !.status = "raised", !.raisedBy = why]

NoDigestInput == [mode |-> "", summary_limit |-> 0]

\* an input: n texts (lines, items, candidates), each the text value text
In(text, n) == [text |-> text, n |-> n]

\* no request has been received
InitRequest ==
  /\ pc = "idle"
  /\ task = "none"
  /\ reqModel = MNone
  /\ reqKey = "absent"
  /\ input = In(EmptyText, 0)
  /\ adapter = "none"
  /\ svcModel = MNone
  /\ apiKey = FALSE
  /\ digestInput = NoDigestInput
  /\ chunkCount = 0
  /\ chunkIdx = 0
  /\ chunkMetas = <<>>
  /\ chunkLog = <<>>
  /\ primary = MNone
  /\ fallback = MNone
  /\ phase = "primary"
  /\ attempt = 0
  /\ pendingSleep = 0
  /\ callLog = <<>>
  /\ netCalls = 0
  /\ message = NoMsg
  /\ usedModel = MNone
  /\ messageModel = MNone
  /\ result = NoResult

\* no LlmMeta record has been built
NoMeta == local_llm_meta("", MNone)
NoPricing == [rates |-> ZeroRates, pricing_source |-> "", pricing_model_family |-> MEmpty]
InitMeta ==
  /\ metaPurpose = "facts"
  /\ pricing = NoPricing
  /\ metaRecords = <<>>
  /\ resultMeta = NoMeta
  /\ llmKind = "none"

\* no text is being chunked
NoSplit ==
  /\ splitPc = "idle"
  /\ splitText = EmptyText
  /\ splitSize = [chunk_chars |-> 0, overlap_chars |-> 0]
  /\ splitN = 0
  /\ splitStart = 0
  /\ splitChunks = <<>>

\* no summary is being made
NoSummary ==
  /\ sumPc = "idle"
  /\ sumSource = NoneArg
  /\ sumFactsChars = 0
  /\ sumLengths = [target_chars |-> 0, min_chars |-> 0, max_chars |-> 0]
  /\ scoreRaw = [k \in ScoreKeys |-> RawMissing]
  /\ scoreBreakdown = [k \in ScoreKeys |-> Num(0)]
  /\ scoreValue = Num(0)

\* the lists of a request: the existing sources or the non-blank source
\* lines, the non-blank topics, the blank entries among the source lines and
\* topics, the candidates; and whether a usable API key came with it
Lists(sources, topics, blanks, candidates, key) ==
  [sources |-> sources, topics |-> topics, blanks |-> blanks, candidates |-> candidates, key |-> key]

\* no prompt was built
NoPrompt == [made |-> FALSE, sources |-> 0, topics |-> 0, candidates |-> 0]

\* no prompt is being built
NoLists ==
  /\ listsPc = "idle"
  /\ listsIn = Lists(0, 0, 0, 0, FALSE)
  /\ listsPrompt = NoPrompt

\* a page: what is left of it when scripts, styles and tags are removed
\* ("text", "markup" for white space only, "empty" for the empty page), whether
\* it has a <title>, and its og:image or twitter:image ("none", "url", or "bad"
\* for a value urljoin raises ValueError on)
Page(body, title, image) == [fetched |-> TRUE, body |-> body, title |-> title, image |-> image]
NoPage == [fetched |-> FALSE, body |-> "empty", title |-> FALSE, image |-> "none"]

\* what extract_body returns: None, or a dict whose content is "text",
\* "spaces" (white space only), "empty" or "placeholder"; title, published_at
\* and image_url tell whether the value is not None
Record(title, text, published_at, image_url) ==
  [kind |-> "record", title |-> title, content |-> text, published_at |-> published_at, image_url |-> image_url]
FailureSignal == [kind |-> "None", title |-> FALSE, content |-> "empty", published_at |-> FALSE, image_url |-> FALSE]
NotReturned == [FailureSignal EXCEPT !.kind = "none"]

\* the calls extract_body made and how the fetch and the extraction ended
Seen(fetch_url, httpx_get, bare_extraction, fetch, extraction) ==
  [fetch_url |-> fetch_url, httpx_get |-> httpx_get, bare_extraction |-> bare_extraction,
   fetch |-> fetch, extraction |-> extraction]

\* no page is being extracted
NoExtract ==
  /\ extractPc = "idle"
  /\ extractEnv = FALSE
  /\ downloaded = NoPage
  /\ extractSeen = Seen(0, 0, 0, "none", "none")
  /\ extractResult = NotReturned
  /\ extractResponse = 0

\* none of the functions followed on their own is running
NoPure == NoSplit /\ NoSummary /\ NoLists /\ NoExtract

\* no fact list is being merged
NoFacts ==
  /\ factsPc = "idle"
  /\ factChunks = 0
  /\ factIdx = 0
  /\ allFactLists = <<>>
  /\ listChunk = <<>>
  /\ maxItems = FactsMaxItems
  /\ mergeInput = <<>>
  /\ mergedFacts = <<>>
  /\ mergedFrom = <<>>
  /\ factsRead = <<>>

Init ==
  /\ InitRequest
  /\ env = NoOverrides
  /\ InitMeta
  /\ NoFacts
  /\ NoPure

(***************************************************************************)
(* Provider calls.                                                         *)
(***************************************************************************)
LogEntry(ad, model, ph, att, out, slept) == [adapter |-> ad, model |-> model, phase |-> ph, attempt |-> att, outcome |-> out, slept |-> slept]

\* the model of the call in flight
CurModel == IF phase = "primary" THEN primary ELSE fallback

\* claude_service.py: _call_with_retries, one pass of its loop over the
\* outcome of _messages_create: return the message, sleep and loop, or raise
call_with_retries(att, out) ==
  IF out = "ok" THEN "return"
  ELSE IF att >= Retries \/ ~is_rate_limit_error(out) THEN "raise"
  ELSE "sleep"

\* claude_service.py:400, sleep_sec = 1.0 * (2 ** attempt)
sleep_sec(att) == 1 * (2 ^ att)

\* a variant of the fallback condition without `!= primary_model`
fallback_allowed_same(primary_model, fallback_model) == Truthy(fallback_model)

\* claude_service.py:437, `if fallback_model and fallback_model != primary_model`
fallback_allowed(primary_model, fallback_model) ==
  Truthy(fallback_model) /\ fallback_model # primary_model

\* a prompt is handed to _call_with_model_fallback
BeginCall(primary_model, fallback_model) ==
  /\ pc' = "calling"
  /\ primary' = primary_model
  /\ fallback' = fallback_model
  /\ phase' = "primary"
  /\ attempt' = 0
  /\ pendingSleep' = 0
  /\ callLog' = <<>>
  /\ message' = NoMsg
  /\ usedModel' = MNone
  /\ messageModel' = MNone
  /\ UNCHANGED netCalls

\* the orchestrator returns r or raises it
Return(r) ==
  /\ pc' = "done"
  /\ result' = r

\* claude_service.py: _call_with_model_fallback, up to and including the next
\* provider call (_messages_create) and what follows from its outcome
call_with_model_fallback ==
  /\ pc = "calling"
  /\ adapter = "anthropic"
  /\ UNCHANGED <<sideVars, reqVars, digestInput, chunkVars, result, primary, fallback>>
  /\ IF ~apiKey
       THEN /\ pc' = "replied"
            /\ message' = NoMsg
            /\ usedModel' = MNone
            /\ messageModel' = MNone
            /\ UNCHANGED <<phase, attempt, pendingSleep, callLog, netCalls>>
       ELSE \E out \in {"ok"} \cup ErrKinds :
              LET verdict == call_with_retries(attempt, out)
              IN  /\ callLog' = Append(callLog, LogEntry("anthropic", CurModel, phase, attempt, out, pendingSleep))
                  /\ netCalls' = netCalls + 1
                  /\ IF verdict = "return"
                       THEN /\ pc' = "replied"
                            /\ message' = Unread
                            /\ usedModel' = CurModel
                            \* the API names the model it answered with, or the
                            \* message has no truthy model attribute
                            /\ messageModel' \in {MNone, CurModel}
                            /\ pendingSleep' = 0
                            /\ UNCHANGED <<phase, attempt>>
                       ELSE IF verdict = "sleep"
                       THEN /\ pc' = "calling"
                            /\ attempt' = attempt + 1
                            /\ pendingSleep' = sleep_sec(attempt)
                            /\ UNCHANGED <<phase, message, usedModel, messageModel>>
                       ELSE IF phase = "primary" /\ fallback_allowed(primary, fallback)
                       THEN /\ pc' = "calling"
                            /\ phase' = "fallback"
                            /\ attempt' = 0
                            /\ pendingSleep' = 0
                            /\ UNCHANGED <<message, usedModel, messageModel>>
                       ELSE /\ pc' = "replied"
                            /\ message' = NoMsg
                            /\ usedModel' = MNone
                            /\ messageModel' = MNone
                            /\ pendingSleep' = 0
                            /\ UNCHANGED <<phase, attempt>>

\* the outcomes of the one HTTP request of _generate_content that make it raise:
\* a status >= 400, an httpx error, or a body resp.json() cannot parse
GeminiErrKinds == {"http429", "http500", "timeout", "bad_body"}

\* gemini_service.py: _generate_content; an exception leaves the orchestrator
generate_content ==
  /\ pc = "calling"
  /\ adapter = "google"
  /\ UNCHANGED <<sideVars, reqVars, digestInput, chunkVars, primary, fallback, phase, attempt, pendingSleep, usedModel, messageModel>>
  /\ IF ~apiKey
       THEN /\ Return(Raised("api_key_required"))
            /\ UNCHANGED <<callLog, netCalls, message>>
       ELSE \E out \in {"ok"} \cup GeminiErrKinds :
              /\ callLog' = Append(callLog, LogEntry("google", normalize_model_name(svcModel), "primary", 0, out, 0))
              /\ netCalls' = netCalls + 1
              /\ IF out = "ok"
                   THEN /\ pc' = "replied"
                        /\ message' = Unread
                        /\ UNCHANGED result
                   ELSE /\ Return(Raised(out))
                        /\ UNCHANGED message

(***************************************************************************)
(* Orchestrators of claude_service.py.                                     *)
(***************************************************************************)
\* the llm block of the branches `if _client_for_api_key(api_key) is None`
LocalDev == Returned("local-dev", MLocalFallback, "local_heuristic")
\* the llm block of the branches `if message is None`
LocalFallback(model) == Returned("local-fallback", model, "local_heuristic")
\* the llm block of the results that need no call, and _merge_llm_metas([])
NoCallNeeded(payload) == Returned("none", MLiteralNone, payload)
\* claude_service.py:335, `getattr(message, "model", None) or model`
llm_meta_actual_model(model) == OrElse(messageModel, model)
\* a variant of _llm_meta that records the primary model of the call
claude_llm_meta_primary(model) == Returned("anthropic", primary, "model_output")
\* claude_service.py: _llm_meta, the provider and model of the block
claude_llm_meta(model) == Returned("anthropic", llm_meta_actual_model(model), "model_output")
\* gemini_service.py: _llm_meta, the provider and model of the block
gemini_llm_meta(model, payload) == Returned("google", normalize_model_name(model), payload)
\* the value of a service function neither service module defines
External == [NoResult EXCEPT !.status = "external"]

\* claude_service.py: _merge_llm_metas, the provider and model of the merge
merge_llm_metas(metas) ==
  IF metas = <<>> THEN NoCallNeeded("empty")
  ELSE [Returned("anthropic",
                 IF \A i \in DOMAIN metas : metas[i] = metas[1] THEN metas[1] ELSE MMultiple,
                 "model_output")
          EXCEPT !.calls = Len(metas)]

\* a variant of _build_digest_input_sections with `< 80` for `<= 80`
claude_build_digest_input_sections_lt(n) ==
  IF n < 80
    THEN [mode |-> "items", summary_limit |-> IF n <= 20 THEN 450 ELSE IF n <= 50 THEN 240 ELSE 120]
    ELSE [mode |-> "topic_grouped", summary_limit |-> 140]

\* claude_service.py: _build_digest_input_sections, for len(items) = n: the
\* mode, and the length the per-item (or highlight) summaries are cut to
claude_build_digest_input_sections(n) ==
  IF n <= 80
    THEN [mode |-> "items", summary_limit |-> IF n <= 20 THEN 450 ELSE IF n <= 50 THEN 240 ELSE 120]
    ELSE [mode |-> "topic_grouped", summary_limit |-> 140]

\* gemini_service.py: _build_digest_input_sections
gemini_build_digest_input_sections(n) ==
  IF n <= 80
    THEN [mode |-> "items", summary_limit |-> IF n <= 20 THEN 450 ELSE IF n <= 50 THEN 240 ELSE 120]
    ELSE [mode |-> "topic_grouped", summary_limit |-> 140]

\* the service is entered
Enter(ad, model, api_key) ==
  /\ adapter' = ad
  /\ svcModel' = model
  /\ apiKey' = api_key

\* the orchestrator returns before any prompt is built
ReturnEarly(r) ==
  /\ Return(r)
  /\ UNCHANGED <<digestInput, chunkVars, callVars>>

\* the orchestrator returns after the reply r of its last prompt
Finish(r, res) ==
  /\ Return(res)
  /\ message' = r
  /\ callLog' = <<>>
  /\ UNCHANGED <<primary, fallback, phase, attempt, pendingSleep, netCalls, usedModel, messageModel>>

\* the replies the call of the prompt in flight may have returned
RepliesOf(replies) == IF message.present THEN replies ELSE {NoMsg}

\* claude_service.py: extract_facts, up to the first chunk's prompt
claude_extract_facts(model, api_key, content) ==
  /\ Enter("anthropic", model, api_key)
  /\ IF ~api_key THEN ReturnEarly(LocalDev)
     ELSE LET chunks == split_text_chunks(content, FactsChunkChars, FactsOverlapChars)
          IN  IF chunks = <<>> THEN ReturnEarly(merge_llm_metas(<<>>))
              ELSE /\ chunkCount' = Len(chunks)
                   /\ chunkIdx' = 1
                   /\ chunkMetas' = <<>>
                   /\ chunkLog' = <<>>
                   /\ BeginCall(OrElse(model, facts_model), facts_model_fallback)
                   /\ UNCHANGED <<digestInput, result>>

\* a chunk of extract_facts: its idx, whether the last provider call of its
\* prompt returned a message, and whether its facts were appended to
\* all_fact_lists
ChunkEntry(idx, appended) ==
  [idx |-> idx,
   ok |-> callLog # <<>> /\ callLog[Len(callLog)].outcome = "ok",
   model |-> IF callLog # <<>> THEN callLog[Len(callLog)].model ELSE MNone,
   appended |-> appended]

\* claude_service.py: extract_facts, from a chunk's reply to the next chunk's
\* prompt or to the result
claude_extract_facts_chunk ==
  /\ pc = "replied"
  /\ adapter = "anthropic"
  /\ task = "facts"
  /\ UNCHANGED <<sideVars, reqVars, digestInput, chunkCount>>
  /\ \E r \in RepliesOf(AnthropicReplies(task)) :
       IF r.shape = "no_content"
         THEN /\ Finish(r, Raised("IndexError"))
              /\ chunkLog' = Append(chunkLog, ChunkEntry(chunkIdx, FALSE))
              /\ UNCHANGED <<chunkIdx, chunkMetas>>
         ELSE LET metas == IF r.present THEN Append(chunkMetas, llm_meta_actual_model(OrElse(usedModel, facts_model))) ELSE chunkMetas
              IN  /\ chunkMetas' = metas
                  /\ chunkLog' = Append(chunkLog, ChunkEntry(chunkIdx, r.present))
                  /\ IF chunkIdx < chunkCount
                       THEN /\ chunkIdx' = chunkIdx + 1
                            /\ BeginCall(OrElse(svcModel, facts_model), facts_model_fallback)
                            /\ UNCHANGED result
                       ELSE /\ UNCHANGED chunkIdx
                            /\ Finish(r, IF metas = <<>> THEN LocalFallback(facts_model)
                                         ELSE [merge_llm_metas(metas) EXCEPT
                                                 !.chunk_count = chunkCount,
                                                 !.chunk_success_count = Len(metas)])

\* the tail shared by summarize, compose_digest_cluster_draft,
\* rank_feed_suggestions and suggest_feed_seed_sites of claude_service.py:
\* `if message is None`, then message.content[0].text, the parse and _llm_meta
ClaudeFinish(builtin) ==
  /\ UNCHANGED <<sideVars, reqVars, digestInput, chunkVars>>
  /\ \E r \in RepliesOf(AnthropicReplies(task)) :
       Finish(r, IF ~r.present THEN LocalFallback(OrElse(usedModel, builtin))
                 ELSE IF r.shape = "no_content" THEN Raised("IndexError")
                 ELSE claude_llm_meta(OrElse(usedModel, builtin)))

\* claude_service.py: summarize, up to its prompt
claude_summarize(model, api_key) ==
  /\ Enter("anthropic", model, api_key)
  /\ IF ~api_key THEN ReturnEarly(LocalDev)
     ELSE /\ BeginCall(OrElse(model, summary_model), summary_model_fallback)
          /\ UNCHANGED <<digestInput, chunkVars, result>>

\* claude_service.py: summarize, from the reply
claude_summarize_reply ==
  /\ pc = "replied"
  /\ adapter = "anthropic"
  /\ task = "summary"
  /\ ClaudeFinish(summary_model)

\* claude_service.py: compose_digest_cluster_draft, up to its prompt
claude_compose_digest_cluster_draft(model, api_key, source_lines) ==
  /\ Enter("anthropic", model, api_key)
  /\ IF source_lines.n = 0 \/ Strip(source_lines.text) = EmptyText THEN ReturnEarly(NoCallNeeded("empty"))
     ELSE IF ~api_key THEN ReturnEarly(LocalDev)
     ELSE /\ BeginCall(OrElse(model, digest_model), digest_model_fallback)
          /\ UNCHANGED <<digestInput, chunkVars, result>>

\* claude_service.py: compose_digest_cluster_draft, from the reply
claude_compose_digest_cluster_draft_reply ==
  /\ pc = "replied"
  /\ adapter = "anthropic"
  /\ task = "cluster_draft"
  /\ ClaudeFinish(digest_model)

\* claude_service.py: rank_feed_suggestions, up to its prompt
rank_feed_suggestions(model, api_key, candidates) ==
  /\ Enter("anthropic", model, api_key)
  /\ IF candidates.n = 0 THEN ReturnEarly(NoCallNeeded("empty"))
     ELSE IF ~api_key THEN ReturnEarly(LocalDev)
     ELSE /\ BeginCall(OrElse(model, feed_suggest_model), feed_suggest_model_fallback)
          /\ UNCHANGED <<digestInput, chunkVars, result>>

\* claude_service.py: rank_feed_suggestions, from the reply
rank_feed_suggestions_reply ==
  /\ pc = "replied"
  /\ adapter = "anthropic"
  /\ task = "feed_rank"
  /\ ClaudeFinish(feed_suggest_model)

\* claude_service.py: suggest_feed_seed_sites, up to its prompt
suggest_feed_seed_sites(model, api_key) ==
  /\ Enter("anthropic", model, api_key)
  /\ IF ~api_key THEN ReturnEarly(LocalDev)
     ELSE /\ BeginCall(OrElse(model, feed_suggest_model), feed_suggest_model_fallback)
          /\ UNCHANGED <<digestInput, chunkVars, result>>

\* claude_service.py: suggest_feed_seed_sites, from the reply
suggest_feed_seed_sites_reply ==
  /\ pc = "replied"
  /\ adapter = "anthropic"
  /\ task = "feed_seed"
  /\ ClaudeFinish(feed_suggest_model)

\* claude_service.py: _extract_compose_digest_fields: the JSON object when
\* the text holds one, else the "subject" and "body" fields found by regex
claude_extract_compose_digest_fields(r) ==
  LET dataSubject == IF r.shape = "json" THEN Strip(r.subject) ELSE EmptyText
      dataBody == IF r.shape = "json" THEN Strip(r.body) ELSE EmptyText
      matched == r.shape \in {"json", "broken_json"}
  IN  IF dataSubject # EmptyText /\ dataBody # EmptyText THEN <<dataSubject, dataBody>>
      ELSE <<IF dataSubject = EmptyText /\ matched THEN Strip(r.subject) ELSE dataSubject,
             IF dataBody = EmptyText /\ matched THEN Strip(r.body) ELSE dataBody>>

\* claude_service.py:863-867, the two checks that raise
claude_digest_validation(subject, body) ==
  IF subject = EmptyText \/ body = EmptyText THEN "missing_subject_or_body"
  ELSE IF StrLen(body) < MinDigestBodyChars THEN "body_too_short"
  ELSE "ok"

\* a variant of the two checks with `<=` for `<`
gemini_digest_validation_le(subject, body) ==
  IF subject = EmptyText \/ body = EmptyText THEN "missing_subject_or_body"
  ELSE IF StrLen(body) <= MinDigestBodyChars THEN "body_too_short"
  ELSE "ok"

\* gemini_service.py:439-443, the two checks that raise
gemini_digest_validation(subject, body) ==
  IF subject = EmptyText \/ body = EmptyText THEN "missing_subject_or_body"
  ELSE IF StrLen(body) < MinDigestBodyChars THEN "body_too_short"
  ELSE "ok"

\* a digest result: the llm block plus subject and body
Digest(llm, mode, subject, body) == [llm EXCEPT !.input_mode = mode, !.subject = subject, !.body = body]

\* a variant of compose_digest without `if not items`
claude_compose_digest_no_empty_check(model, api_key, items) ==
  /\ Enter("anthropic", model, api_key)
  /\ digestInput' = claude_build_digest_input_sections(items.n)
  /\ BeginCall(OrElse(model, digest_model), digest_model_fallback)
  /\ UNCHANGED <<chunkVars, result>>

\* claude_service.py: compose_digest, up to its prompt
claude_compose_digest(model, api_key, items) ==
  /\ Enter("anthropic", model, api_key)
  /\ IF items.n = 0 THEN ReturnEarly(NoCallNeeded("fixed_no_items"))
     ELSE /\ digestInput' = claude_build_digest_input_sections(items.n)
          /\ BeginCall(OrElse(model, digest_model), digest_model_fallback)
          /\ UNCHANGED <<chunkVars, result>>

\* claude_service.py: compose_digest, from the reply
claude_compose_digest_reply ==
  /\ pc = "replied"
  /\ adapter = "anthropic"
  /\ task = "digest"
  /\ UNCHANGED <<sideVars, reqVars, digestInput, chunkVars>>
  /\ \E r \in RepliesOf(AnthropicReplies(task)) :
       LET fields == claude_extract_compose_digest_fields(r)
           verdict == claude_digest_validation(fields[1], fields[2])
       IN  Finish(r, IF ~r.present THEN LocalFallback(OrElse(usedModel, digest_model))
                     ELSE IF r.shape = "no_content" THEN Raised("IndexError")
                     ELSE IF verdict # "ok" THEN Raised(verdict)
                     ELSE Digest(claude_llm_meta(OrElse(usedModel, digest_model)), digestInput.mode, fields[1], fields[2]))

(***************************************************************************)
(* Orchestrators of gemini_service.py.                                     *)
(***************************************************************************)
\* gemini_service.py: extract_facts, summarize and compose_digest_cluster_draft
\* up to their prompt: the prompt is built and handed to _generate_content
GeminiBegin(model, api_key) ==
  /\ Enter("google", model, api_key)
  /\ BeginCall(model, MNone)
  /\ UNCHANGED <<digestInput, chunkVars, result>>

\* the tail of those three: a reply that does not parse gives an empty payload
GeminiFinish ==
  /\ UNCHANGED <<sideVars, reqVars, digestInput, chunkVars>>
  /\ \E r \in RepliesOf(GeminiReplies(task)) :
       Finish(r, gemini_llm_meta(svcModel, "model_output"))

\* gemini_service.py: extract_facts, from the reply
gemini_extract_facts_reply ==
  /\ pc = "replied"
  /\ adapter = "google"
  /\ task = "facts"
  /\ GeminiFinish

\* gemini_service.py: summarize, from the reply
gemini_summarize_reply ==
  /\ pc = "replied"
  /\ adapter = "google"
  /\ task = "summary"
  /\ GeminiFinish

\* gemini_service.py: compose_digest_cluster_draft, from the reply
gemini_compose_digest_cluster_draft_reply ==
  /\ pc = "replied"
  /\ adapter = "google"
  /\ task = "cluster_draft"
  /\ GeminiFinish

\* gemini_service.py: compose_digest, up to its prompt
gemini_compose_digest(model, api_key, items) ==
  /\ Enter("google", model, api_key)
  /\ IF items.n = 0 THEN ReturnEarly(gemini_llm_meta(model, "fixed_no_items"))
     ELSE /\ digestInput' = gemini_build_digest_input_sections(items.n)
          /\ BeginCall(model, MNone)
          /\ UNCHANGED <<chunkVars, result>>

\* gemini_service.py: compose_digest, from the reply: json.loads raises on a
\* text that is no JSON object, then the two checks
gemini_compose_digest_reply ==
  /\ pc = "replied"
  /\ adapter = "google"
  /\ task = "digest"
  /\ UNCHANGED <<sideVars, reqVars, digestInput, chunkVars>>
  /\ \E r \in RepliesOf(GeminiReplies(task)) :
       LET subject == Strip(r.subject)
           body == Strip(r.body)
           verdict == gemini_digest_validation(subject, body)
       IN  Finish(r, IF r.shape # "json" THEN Raised("json_parse_failed")
                     ELSE IF verdict # "ok" THEN Raised(verdict)
                     ELSE Digest(gemini_llm_meta(svcModel, "model_output"), "", subject, body))

(***************************************************************************)
(* Endpoints (routers/*.py).  Each reads the request, picks the service    *)
(* and calls its orchestrator.                                             *)
(***************************************************************************)
\* the largest digest (number of items) a request carries
MaxItems == 82
ItemCounts == 0..MaxItems
\* the digests of the requests followed together with the other tasks
DigestCounts == {0, 1, 81}

\* article contents: empty, blank, one character, one chunk exactly, two chunks
Contents ==
  {EmptyText, T(1, 0), T(0, 1), T(0, FactsChunkChars), T(0, FactsChunkChars + 1)}

\* source lines of a cluster: none, one blank line, one line
SourceLineInputs == {In(T(0, 5), 0), In(T(1, 0), 1), In(T(0, 5), 1)}
\* candidate feeds: none or one
CandidateInputs == {In(T(0, 5), 0), In(T(0, 5), 1)}

\* the request is read
Receive(t, model, key, in) ==
  /\ pc = "idle"
  /\ UNCHANGED sideVars
  /\ task' = t
  /\ reqModel' = model
  /\ reqKey' = key
  /\ input' = in

\* routers/facts.py: extract_facts_endpoint
extract_facts_endpoint ==
  \E m \in ModelIds, k \in KeyHeaders, content \in Contents :
    /\ Receive("facts", m, k, In(content, 1))
    /\ IF is_gemini_model(m)
         THEN GeminiBegin(m, HasKey(k))
         ELSE claude_extract_facts(m, HasKey(k), content)

\* routers/summarize.py: summarize_endpoint
summarize_endpoint ==
  \E m \in ModelIds, k \in KeyHeaders, n \in 0..1 :
    /\ Receive("summary", m, k, In(T(0, 5), n))
    /\ IF is_gemini_model(m)
         THEN GeminiBegin(m, HasKey(k))
         ELSE claude_summarize(m, HasKey(k))

\* routers/digest.py: compose_digest_endpoint, on a request with the model m,
\* the key header k and n items
compose_digest_request(m, k, n) ==
  /\ Receive("digest", m, k, In(T(0, 5), n))
  /\ IF is_gemini_model(m)
       THEN gemini_compose_digest(m, HasKey(k), In(T(0, 5), n))
       ELSE claude_compose_digest(m, HasKey(k), In(T(0, 5), n))

\* routers/digest.py: compose_digest_endpoint
compose_digest_endpoint ==
  \E m \in ModelIds, k \in KeyHeaders, n \in DigestCounts : compose_digest_request(m, k, n)

\* the same endpoint over every digest size, for one model of each provider
compose_digest_endpoint_sizes ==
  \E m \in {MNone, MGeminiFlash}, n \in ItemCounts : compose_digest_request(m, "key", n)

\* routers/digest.py: compose_digest_cluster_draft_endpoint
compose_digest_cluster_draft_endpoint ==
  \E m \in ModelIds, k \in KeyHeaders, lines \in SourceLineInputs :
    /\ Receive("cluster_draft", m, k, lines)
    /\ IF is_gemini_model(m)
         THEN GeminiBegin(m, HasKey(k))
         ELSE claude_compose_digest_cluster_draft(m, HasKey(k), lines)

\* routers/feed_suggestions.py: rank_feed_suggestions_endpoint
rank_feed_suggestions_endpoint ==
  \E m \in ModelIds, k \in KeyHeaders, candidates \in CandidateInputs :
    /\ Receive("feed_rank", m, k, candidates)
    /\ rank_feed_suggestions(m, HasKey(k), candidates)

\* routers/feed_seed_suggestions.py: suggest_feed_seed_sites_endpoint
suggest_feed_seed_sites_endpoint ==
  \E m \in ModelIds, k \in KeyHeaders :
    /\ Receive("feed_seed", m, k, In(EmptyText, 0))
    /\ suggest_feed_seed_sites(m, HasKey(k))

\* routers/translate_title.py: translate_title_endpoint, up to the call of the
\* service's translate_title
translate_title_endpoint ==
  \E m \in ModelIds, k \in KeyHeaders :
    /\ Receive("translate", m, k, In(T(0, 5), 1))
    /\ Enter(IF is_gemini_model(m) THEN "google" ELSE "anthropic", m, HasKey(k))
    /\ ReturnEarly(External)

Next ==
  \/ extract_facts_endpoint
  \/ summarize_endpoint
  \/ compose_digest_endpoint
  \/ compose_digest_cluster_draft_endpoint
  \/ rank_feed_suggestions_endpoint
  \/ suggest_feed_seed_sites_endpoint
  \/ translate_title_endpoint
  \/ call_with_model_fallback
  \/ generate_content
  \/ claude_extract_facts_chunk
  \/ claude_summarize_reply
  \/ claude_compose_digest_reply
  \/ claude_compose_digest_cluster_draft_reply
  \/ rank_feed_suggestions_reply
  \/ suggest_feed_seed_sites_reply
  \/ gemini_extract_facts_reply
  \/ gemini_summarize_reply
  \/ gemini_compose_digest_reply
  \/ gemini_compose_digest_cluster_draft_reply

Spec == Init /\ [][Next]_vars

\* digest requests of every size
NextDigest ==
  \/ compose_digest_endpoint_sizes
  \/ call_with_model_fallback
  \/ generate_content
  \/ claude_compose_digest_reply
  \/ gemini_compose_digest_reply

SpecDigest == Init /\ [][NextDigest]_vars

(***************************************************************************)
(* The LlmMeta records of results: built from provider calls by the two    *)
(* _llm_meta functions, merged by _merge_llm_metas, or written out for a   *)
(* local result.                                                           *)
(***************************************************************************)
\* the most records merged
MaxMetas == 2

\* the model attribute of an Anthropic message: missing, a dated identifier
\* of a priced family, a priced family
ClaudeMessageModels ==
  {MNone, Mk(TRUE, FALSE, "", <<"claude", "haiku", "4", "5", "20251001">>), summary_model}
\* the usage of an Anthropic message
ClaudeUsages == {NoUsage, Usage(1, 2, 1, 1), Usage(3, 0, 0, 1)}
\* the model argument of the Gemini _llm_meta
GeminiMetaModels ==
  {MGeminiFlash, MGeminiPath, MGeminiUpper,
   Mk(TRUE, FALSE, "", <<"gemini", "3.1", "pro", "preview">>),
   Mk(TRUE, FALSE, "", <<"gemini", "2.5", "flash", "lite", "001">>)}
\* the usage _generate_content returns
GeminiUsages ==
  {NoUsage, Usage(1, 1, 0, 0), Usage(TierThreshold, 1, 0, 0), Usage(TierThreshold + 1, 1, 0, 0)}

InitMetaRecords ==
  /\ InitRequest
  /\ env \in EnvChoices
  /\ metaPurpose \in Purposes
  /\ pricing = NoPricing
  /\ NoFacts
  /\ NoPure
  /\ metaRecords = <<>>
  /\ resultMeta = NoMeta
  /\ llmKind = "none"

\* a record is built by _llm_meta of claude_service.py
BuildClaudeMeta ==
  /\ llmKind = "none"
  /\ Len(metaRecords) < MaxMetas
  /\ \E mm \in ClaudeMessageModels, u \in ClaudeUsages, model \in {facts_model, facts_model_fallback} :
       /\ metaRecords' = Append(metaRecords, claude_llm_meta_record(env, Message(mm, u), metaPurpose, model))
       /\ pricing' = claude_pricing_for_model(env, OrElse(mm, model), metaPurpose)
  /\ UNCHANGED <<requestVars, factVars, pureVars, env, metaPurpose, resultMeta, llmKind>>

\* a record is built by _llm_meta of gemini_service.py
BuildGeminiMeta ==
  /\ llmKind = "none"
  /\ Len(metaRecords) < MaxMetas
  /\ \E model \in GeminiMetaModels, u \in GeminiUsages :
       /\ metaRecords' = Append(metaRecords, gemini_llm_meta_record(env, model, metaPurpose, u))
       /\ pricing' = gemini_pricing_for_model(env, model, metaPurpose)
  /\ UNCHANGED <<requestVars, factVars, pureVars, env, metaPurpose, resultMeta, llmKind>>

\* the record of the one call is attached to the result
AttachSingle ==
  /\ llmKind = "none"
  /\ Len(metaRecords) = 1
  /\ resultMeta' = metaRecords[1]
  /\ llmKind' = "single"
  /\ UNCHANGED <<requestVars, factVars, pureVars, env, metaPurpose, pricing, metaRecords>>

\* the merge of the records is attached to the result
AttachMerged ==
  /\ llmKind = "none"
  /\ resultMeta' = merge_llm_meta_records(metaRecords, metaPurpose)
  /\ llmKind' = "merged"
  /\ UNCHANGED <<requestVars, factVars, pureVars, env, metaPurpose, pricing, metaRecords>>

\* a written-out record is attached to a local result
AttachLocal ==
  /\ llmKind = "none"
  /\ metaRecords = <<>>
  /\ resultMeta' \in {local_llm_meta("local-dev", MLocalFallback),
                      local_llm_meta("local-fallback", facts_model),
                      local_llm_meta("none", MLiteralNone)}
  /\ llmKind' = "local"
  /\ UNCHANGED <<requestVars, factVars, pureVars, env, metaPurpose, pricing, metaRecords>>

NextMeta ==
  \/ BuildClaudeMeta
  \/ BuildGeminiMeta
  \/ AttachSingle
  \/ AttachMerged
  \/ AttachLocal

SpecMeta == InitMetaRecords /\ [][NextMeta]_vars

(***************************************************************************)
(* The fact lists of a chunked extraction and their merge.                 *)
(***************************************************************************)

\* the chunks of a content followed
MaxChunks == 3
\* the facts of a chunk's reply followed
MaxFactLen == 2

\* the facts of the replies: "fact one", "Fact  ONE" (the same fact to the
\* merge) and "fact two"
FactChoices ==
  {Fact(1, FALSE, FALSE, FALSE), Fact(1, FALSE, TRUE, TRUE), Fact(2, FALSE, FALSE, FALSE)}

\* the fact "   "
BlankFact == Fact(0, TRUE, FALSE, FALSE)

RECURSIVE ListsUpTo(_)
ListsUpTo(n) ==
  IF n = 0 THEN {<<>>}
  ELSE LET shorter == ListsUpTo(n - 1)
       IN  shorter \cup {Append(xs, f) : xs \in {ys \in shorter : Len(ys) = n - 1}, f \in FactChoices}

\* a reply of more than max_items / 2 facts found in no other reply
LongList(k) ==
  [i \in 1..(FactsMaxItems \div 2 + 1) |-> Fact(k * FactsMaxItems + i + 2, FALSE, FALSE, FALSE)]

\* what _parse_json_string_array returns for a chunk's reply
FactLists ==
  ListsUpTo(MaxFactLen) \cup {LongList(1), LongList(2)}
    \cup {<<BlankFact, Fact(2, TRUE, TRUE, FALSE)>>}

\* the max_items followed: the one of extract_facts, and a small one
MaxItemsChoices == {2, FactsMaxItems}

InitFacts ==
  /\ InitRequest
  /\ env = NoOverrides
  /\ InitMeta
  /\ NoPure
  /\ factsPc = "collect"
  /\ factChunks \in 1..MaxChunks
  /\ factIdx = 1
  /\ allFactLists = <<>>
  /\ listChunk = <<>>
  /\ maxItems = FactsMaxItems
  /\ mergeInput = <<>>
  /\ mergedFacts = <<>>
  /\ mergedFrom = <<>>
  /\ factsRead = <<>>

\* claude_service.py:482-505, one turn of the loop of extract_facts: the call
\* of the chunk failed (`continue`), or its facts are appended
FactsOfChunk ==
  /\ factsPc = "collect"
  /\ factIdx <= factChunks
  /\ \/ UNCHANGED <<allFactLists, listChunk>>
     \/ \E xs \in FactLists :
          /\ allFactLists' = Append(allFactLists, xs)
          /\ listChunk' = Append(listChunk, factIdx)
  /\ factIdx' = factIdx + 1
  /\ UNCHANGED <<requestVars, metaVars, pureVars, factsPc, factChunks, maxItems, mergeInput, mergedFacts,
                 mergedFrom, factsRead>>

\* claude_service.py:507-522, after the loop: some call succeeded, the lists
\* are merged
MergeFacts ==
  /\ factsPc = "collect"
  /\ factIdx > factChunks
  /\ allFactLists # <<>>
  /\ \E max_items \in MaxItemsChoices :
       LET r == merge_fact_lists(allFactLists, max_items)
       IN  /\ maxItems' = max_items
           /\ mergeInput' = allFactLists
           /\ mergedFacts' = r.merged
           /\ mergedFrom' = r.from
           /\ factsRead' = r.read
  /\ factsPc' = "merged"
  /\ UNCHANGED <<requestVars, metaVars, pureVars, factChunks, factIdx, allFactLists, listChunk>>

\* _merge_fact_lists applied to the list a merge returned
MergeAgain ==
  /\ factsPc = "merged"
  /\ LET r == merge_fact_lists(<<mergedFacts>>, maxItems)
     IN  /\ mergeInput' = <<mergedFacts>>
         /\ mergedFacts' = r.merged
         /\ mergedFrom' = r.from
         /\ factsRead' = r.read
  /\ factsPc' = "remerged"
  /\ UNCHANGED <<requestVars, metaVars, pureVars, factChunks, factIdx, allFactLists, listChunk, maxItems>>

NextFacts ==
  \/ FactsOfChunk
  \/ MergeFacts
  \/ MergeAgain

SpecFacts == InitFacts /\ [][NextFacts]_vars

(***************************************************************************)
(* _split_text_chunks, one turn of its loop at a time.                     *)
(***************************************************************************)

\* the longest text followed, besides those around the extraction's chunk size
MaxTextLen == 9
\* the largest chunk_chars followed, besides the extraction's
MaxChunkChars == 4
\* the largest overlap_chars followed, besides the extraction's
MaxOverlapChars == 5

\* the short texts chunked
SplitTexts == {T(pad, len) : pad \in {0, 1}, len \in 0..MaxTextLen}

\* the texts chunked with the sizes of the extraction: those around one
\* chunk, a text of three chunks
LongTexts ==
  {T(0, 1), T(0, FactsChunkChars), T(0, FactsChunkChars + 1), T(1, 2 * FactsChunkChars)}

\* the chunk_chars and overlap_chars the short texts are chunked with
SplitSizes ==
  {[chunk_chars |-> c, overlap_chars |-> o] : c \in 1..MaxChunkChars, o \in 0..MaxOverlapChars}

\* the sizes of the extraction
FactsSplitSize == [chunk_chars |-> FactsChunkChars, overlap_chars |-> FactsOverlapChars]

InitSplit ==
  /\ InitRequest
  /\ NoExtract
  /\ env = NoOverrides
  /\ InitMeta
  /\ NoFacts
  /\ NoSummary
  /\ NoLists
  /\ splitPc = "start"
  /\ \/ splitText \in SplitTexts /\ splitSize \in SplitSizes
     \/ splitText \in LongTexts /\ splitSize = FactsSplitSize
  /\ splitN = 0
  /\ splitStart = 0
  /\ splitChunks = <<>>

\* a variant of the next start without the overlap
NextStartNoOverlap(start, end, overlap_chars) == Max(end, start + 1)

\* a variant of the next start without the `start + 1`
NextStartNoProgress(start, end, overlap_chars) == Max(end - overlap_chars, start)

\* claude_service.py:69, `max(end - overlap_chars, start + 1)`
NextStart(start, end, overlap_chars) == Max(end - overlap_chars, start + 1)

\* claude_service.py:55-63, up to the loop
SplitEnter ==
  /\ splitPc = "start"
  /\ LET n == StrLen(Strip(splitText))
     IN  /\ splitN' = n
         /\ IF n = 0 THEN splitChunks' = <<>> /\ splitPc' = "done"
            ELSE IF n <= splitSize.chunk_chars THEN splitChunks' = << <<0, n>> >> /\ splitPc' = "done"
            ELSE splitChunks' = <<>> /\ splitPc' = "loop"
  /\ splitStart' = 0
  /\ UNCHANGED <<requestVars, metaVars, factVars, summaryVars, listVars, extractVars, splitText, splitSize>>

\* claude_service.py:64-69, one turn of `while start < n`
SplitTurn ==
  /\ splitPc = "loop"
  /\ IF splitStart < splitN
       THEN LET end == Min(splitN, splitStart + splitSize.chunk_chars)
            IN  /\ splitChunks' = Append(splitChunks, <<splitStart, end>>)
                /\ IF end >= splitN
                     THEN splitPc' = "done" /\ splitStart' = splitStart
                     ELSE /\ splitPc' = "loop"
                          /\ splitStart' = NextStart(splitStart, end, splitSize.overlap_chars)
       ELSE splitPc' = "done" /\ UNCHANGED <<splitStart, splitChunks>>
  /\ UNCHANGED <<requestVars, metaVars, factVars, summaryVars, listVars, extractVars, splitText, splitSize, splitN>>

NextSplit ==
  \/ SplitEnter
  \/ SplitTurn

SpecSplit == InitSplit /\ [][NextSplit]_vars

(***************************************************************************)
(* summarize: the lengths asked of the model, the scores of the result.    *)
(***************************************************************************)

\* the largest source_text_chars followed
MaxSourceChars == 8000
\* the largest sum of the lengths of the facts followed
MaxFactsChars == 1200

\* the values of one key of the reply's score_breakdown, numbers in thousandths
RawScores ==
  {RawMissing, RawText, RawNaN, RawNumber(-500), RawNumber(0), RawNumber(125), RawNumber(1000),
   RawNumber(1500)}

InitSummary ==
  /\ InitRequest
  /\ NoExtract
  /\ env = NoOverrides
  /\ InitMeta
  /\ NoFacts
  /\ NoSplit
  /\ NoLists
  /\ sumLengths = [target_chars |-> 0, min_chars |-> 0, max_chars |-> 0]
  /\ scoreRaw = [k \in ScoreKeys |-> RawMissing]
  /\ scoreBreakdown = [k \in ScoreKeys |-> Num(0)]
  /\ scoreValue = Num(0)
  /\ \/ /\ sumPc = "lengths"
        /\ \/ sumSource \in {IntArg(n) : n \in 1..MaxSourceChars} /\ sumFactsChars \in {0, MaxFactsChars}
           \/ sumSource \in {NoneArg, IntArg(0), IntArg(-1)} /\ sumFactsChars \in 0..MaxFactsChars
     \/ /\ sumPc = "scores"
        /\ sumSource = NoneArg
        /\ sumFactsChars = 0

\* claude_service.py:539-541, gemini_service.py:316-318
SummaryLengths ==
  /\ sumPc = "lengths"
  /\ LET target_chars == target_summary_chars(sumSource, sumFactsChars)
     IN  sumLengths' = [target_chars |-> target_chars,
                        min_chars |-> summary_min_chars(target_chars),
                        max_chars |-> summary_max_chars(target_chars)]
  /\ sumPc' = "done"
  /\ UNCHANGED <<requestVars, metaVars, factVars, splitVars, listVars, extractVars, sumSource, sumFactsChars, scoreRaw,
                 scoreBreakdown, scoreValue>>

\* claude_service.py:646-663, gemini_service.py:362-379: the scores of a reply
SummaryScores ==
  /\ sumPc = "scores"
  /\ \E raw \in [ScoreKeys -> RawScores] :
       LET breakdown == [k \in ScoreKeys |-> clamp01(raw[k])]
       IN  /\ scoreRaw' = raw
           /\ scoreBreakdown' = breakdown
           /\ scoreValue' \in summary_composite_scores(breakdown)
  /\ sumPc' = "done"
  /\ UNCHANGED <<requestVars, metaVars, factVars, splitVars, listVars, extractVars, sumSource, sumFactsChars, sumLengths>>

\* claude_service.py:543-557 and 615-625: the scores of a local result
SummaryLocalScores ==
  /\ sumPc = "scores"
  /\ scoreBreakdown' = LocalBreakdown
  /\ scoreValue' \in summary_composite_scores(LocalBreakdown)
  /\ sumPc' = "local"
  /\ UNCHANGED <<requestVars, metaVars, factVars, splitVars, listVars, extractVars, sumSource, sumFactsChars, sumLengths,
                 scoreRaw>>

NextSummary ==
  \/ SummaryLengths
  \/ SummaryScores
  \/ SummaryLocalScores

SpecSummary == InitSummary /\ [][NextSummary]_vars

(***************************************************************************)
(* The lists the cluster draft, the feed ranking and the feed seeds put    *)
(* into their prompts.                                                     *)
(***************************************************************************)

\* the longest list of sources, source lines or candidates followed
MaxListLen == 21
\* the longest list of topics followed
MaxTopics == 13

InitLists ==
  /\ InitRequest
  /\ NoExtract
  /\ env = NoOverrides
  /\ InitMeta
  /\ NoFacts
  /\ NoSplit
  /\ NoSummary
  /\ listsPc = "called"
  /\ listsIn \in {Lists(sources, topics, blanks, candidates, key) :
                    sources \in 0..MaxListLen, topics \in 0..MaxTopics, blanks \in {0, 1},
                    candidates \in {0, 1, MaxListLen - 1, MaxListLen}, key \in BOOLEAN}
  /\ listsPrompt = NoPrompt

\* the prompt built with these lists
Prompt(sources, topics, candidates) ==
  [made |-> TRUE, sources |-> sources, topics |-> topics, candidates |-> candidates]

\* claude_service.py:886-1040, compose_digest_cluster_draft up to its prompt:
\* blank topics and source lines are dropped, 8 topics and 16 lines kept
ClaudeClusterDraftPrompt ==
  /\ listsPc = "called"
  /\ LET topics == Min(listsIn.topics, 8)
         source_lines == Min(listsIn.sources, 16)
     IN  listsPrompt' = IF source_lines = 0 \/ ~listsIn.key THEN NoPrompt
                        ELSE Prompt(source_lines, topics, 0)
  /\ listsPc' = "done"
  /\ UNCHANGED <<requestVars, metaVars, factVars, splitVars, summaryVars, extractVars, listsIn>>

\* gemini_service.py:459-480, compose_digest_cluster_draft up to its call:
\* topics and source_lines are embedded as they came
GeminiClusterDraftPrompt ==
  /\ listsPc = "called"
  /\ listsPrompt' = Prompt(listsIn.sources + listsIn.blanks, listsIn.topics + listsIn.blanks, 0)
  /\ listsPc' = "done"
  /\ UNCHANGED <<requestVars, metaVars, factVars, splitVars, summaryVars, extractVars, listsIn>>

\* claude_service.py:979-1050, rank_feed_suggestions up to its prompt
RankFeedSuggestionsPrompt ==
  /\ listsPc = "called"
  /\ LET existing_sources == Min(listsIn.sources, 20)
         preferred_topics == Min(listsIn.topics, 12)
         candidates == Min(listsIn.candidates, 20)
     IN  listsPrompt' = IF listsIn.candidates = 0 \/ ~listsIn.key THEN NoPrompt
                        ELSE Prompt(existing_sources, preferred_topics, candidates)
  /\ listsPc' = "done"
  /\ UNCHANGED <<requestVars, metaVars, factVars, splitVars, summaryVars, extractVars, listsIn>>

\* claude_service.py:1103-1145, suggest_feed_seed_sites up to its prompt
SuggestFeedSeedSitesPrompt ==
  /\ listsPc = "called"
  /\ LET existing_sources == Min(listsIn.sources, 20)
         preferred_topics == Min(listsIn.topics, 12)
     IN  listsPrompt' = IF ~listsIn.key THEN NoPrompt ELSE Prompt(existing_sources, preferred_topics, 0)
  /\ listsPc' = "done"
  /\ UNCHANGED <<requestVars, metaVars, factVars, splitVars, summaryVars, extractVars, listsIn>>

NextLists ==
  \/ ClaudeClusterDraftPrompt
  \/ GeminiClusterDraftPrompt
  \/ RankFeedSuggestionsPrompt
  \/ SuggestFeedSeedSitesPrompt

SpecLists == InitLists /\ [][NextLists]_vars

(***************************************************************************)
(* Content extraction: extract_body of trafilatura_service.py and its      *)
(* endpoint.  trafilatura and httpx are not part of the repository: what    *)
(* their calls return or raise is chosen by the environment.               *)
(***************************************************************************)
\* the pages a fetch may return
Pages == {Page(body, title, image) : body \in {"text", "markup", "empty"}, title \in BOOLEAN,
                                     image \in {"none", "url", "bad"}}

\* what trafilatura.bare_extraction may return for the page d: None, or a
\* result whose text is "text", "spaces", "empty" or "missing" (None, or no
\* such key), with or without a title and a date; it finds text only in a
\* page that has some
Extracted(text, title, date) == [kind |-> "result", text |-> text, title |-> title, date |-> date]
NoExtraction == [kind |-> "None", text |-> "missing", title |-> FALSE, date |-> FALSE]
ExtractionsOf(d) ==
  {NoExtraction} \cup
  {Extracted(text, title, date) :
     text \in (IF d.body = "text" THEN {"text"} ELSE {}) \cup {"spaces", "empty", "missing"},
     title \in BOOLEAN, date \in BOOLEAN}

InitExtract ==
  /\ InitRequest
  /\ env = NoOverrides
  /\ InitMeta
  /\ NoFacts
  /\ NoSplit
  /\ NoSummary
  /\ NoLists
  /\ extractPc = "called"
  /\ extractEnv \in BOOLEAN
  /\ downloaded = NoPage
  /\ extractSeen = Seen(0, 0, 0, "none", "none")
  /\ extractResult = NotReturned
  /\ extractResponse = 0

\* trafilatura_service.py:75-82, 101-108, 131-138: the placeholder when the
\* switch is on, None otherwise
PlaceholderOrNone(title, published_at, image_url) ==
  IF extractEnv THEN Record(title, "placeholder", published_at, image_url) ELSE FailureSignal

\* trafilatura_service.py: _extract_image_url raises
ImageUrlRaises(d) == d.image = "bad"

\* trafilatura_service.py: _fallback_extract (its image_url aside)
fallback_extract(d) ==
  IF d.body # "text" THEN FailureSignal ELSE Record(d.title, "text", FALSE, d.image = "url")

\* trafilatura_service.py:97-128, extract_body from the result r of
\* bare_extraction (None when it raised) for the page d to its return, when
\* _extract_image_url does not raise
extract_body_tail(d, r) ==
  IF r.kind = "None"
    THEN IF fallback_extract(d).kind = "record" THEN fallback_extract(d)
         ELSE PlaceholderOrNone(FALSE, FALSE, d.image = "url")
    ELSE LET text == IF r.text = "missing" THEN "empty" ELSE r.text
         IN  IF text # "text" /\ fallback_extract(d).kind = "record" THEN fallback_extract(d)
             ELSE IF text # "text" /\ extractEnv THEN Record(r.title, "placeholder", r.date, d.image = "url")
             ELSE Record(r.title, text, r.date, d.image = "url")

\* trafilatura_service.py:67-82, trafilatura.fetch_url
FetchUrl ==
  /\ extractPc = "called"
  /\ \E how \in {"raise", "None", "page"}, d \in Pages :
       IF how = "raise"
         THEN /\ extractPc' = "returned"
              /\ extractResult' = PlaceholderOrNone(FALSE, FALSE, FALSE)
              /\ extractSeen' = Seen(1, 0, 0, "failed", "none")
              /\ UNCHANGED downloaded
       ELSE IF how = "None"
         THEN /\ extractPc' = "httpx"
              /\ extractSeen' = Seen(1, 0, 0, "none", "none")
              /\ UNCHANGED <<downloaded, extractResult>>
         ELSE /\ extractPc' = "extract"
              /\ downloaded' = d
              /\ extractSeen' = Seen(1, 0, 0, "ok", "none")
              /\ UNCHANGED extractResult
  /\ UNCHANGED <<requestVars, metaVars, factVars, splitVars, summaryVars, listVars, extractEnv, extractResponse>>

\* trafilatura_service.py:69-82, httpx.get after fetch_url returned None
HttpxGet ==
  /\ extractPc = "httpx"
  /\ \E how \in {"error", "page"}, d \in Pages :
       IF how = "error"
         THEN /\ extractPc' = "returned"
              /\ extractResult' = PlaceholderOrNone(FALSE, FALSE, FALSE)
              /\ extractSeen' = [extractSeen EXCEPT !.httpx_get = 1, !.fetch = "failed"]
              /\ UNCHANGED downloaded
         ELSE /\ extractPc' = "extract"
              /\ downloaded' = d
              /\ extractSeen' = [extractSeen EXCEPT !.httpx_get = 1, !.fetch = "ok"]
              /\ UNCHANGED extractResult
  /\ UNCHANGED <<requestVars, metaVars, factVars, splitVars, summaryVars, listVars, extractEnv, extractResponse>>

\* trafilatura_service.py:84-138, trafilatura.bare_extraction and the rest
\* of extract_body; an exception of _extract_image_url is caught at line 129
BareExtraction ==
  /\ extractPc = "extract"
  /\ \E how \in {"raise", "return"}, returned \in ExtractionsOf(downloaded) :
       LET r == IF how = "raise" THEN NoExtraction ELSE returned
           tail == extract_body_tail(downloaded, r)
           image_read == tail.kind = "record"
       IN  /\ extractResult' = IF image_read /\ ImageUrlRaises(downloaded)
                                 THEN PlaceholderOrNone(FALSE, FALSE, FALSE)
                                 ELSE tail
           /\ extractSeen' = [extractSeen EXCEPT !.bare_extraction = @ + 1,
                                 !.extraction = IF r.kind = "None" THEN "failed"
                                                ELSE IF r.text = "text" THEN "ok" ELSE "blank"]
  /\ extractPc' = "returned"
  /\ UNCHANGED <<requestVars, metaVars, factVars, splitVars, summaryVars, listVars, extractEnv, downloaded, extractResponse>>

\* routers/extract.py: extract_body_endpoint
ExtractBodyEndpoint ==
  /\ extractPc = "returned"
  /\ extractResponse' = IF extractResult.kind = "None" THEN 422 ELSE 200
  /\ extractPc' = "responded"
  /\ UNCHANGED <<requestVars, metaVars, factVars, splitVars, summaryVars, listVars, extractEnv, downloaded,
                 extractSeen, extractResult>>

NextExtract ==
  \/ FetchUrl
  \/ HttpxGet
  \/ BareExtraction
  \/ ExtractBodyEndpoint

SpecExtract == InitExtract /\ [][NextExtract]_vars

(***************************************************************************)
(* Properties.                                                             *)
(***************************************************************************)
\* an outcome of a provider call that carries a rate-limit signal: HTTP 429,
\* or the vendor's rate-limit marker in the error
RateLimitSignal(out) == out \in {"http429", "rate_limit"}

\* C1: within the calls made for one prompt, an attempt after the first of a
\* model happens only when that model's previous attempt failed with a
\* rate-limit signal; a model is attempted at most three times; the first retry
\* follows a sleep of 1 second and the second a sleep of 2 seconds; after a
\* success or an error without the signal the same model is not attempted again.
C1_RetryPolicy ==
  \A i \in DOMAIN callLog :
    LET e == callLog[i]
    IN  /\ e.attempt \in 0..2
        /\ e.attempt = 0 => e.slept = 0
        /\ e.attempt > 0 =>
             /\ i > 1
             /\ callLog[i - 1].adapter = e.adapter
             /\ callLog[i - 1].model = e.model
             /\ callLog[i - 1].phase = e.phase
             /\ callLog[i - 1].attempt = e.attempt - 1
             /\ RateLimitSignal(callLog[i - 1].outcome)
             /\ e.slept = IF e.attempt = 1 THEN 1 ELSE 2
        /\ e.outcome = "ok" => i = Len(callLog)
        /\ (i < Len(callLog) /\ ~RateLimitSignal(e.outcome)) =>
             /\ callLog[i + 1].attempt = 0
             /\ callLog[i + 1].phase # e.phase

\* C2: the calls made for one prompt are at most six; a call of the fallback
\* model happens only when a fallback model is set and differs from the primary
\* model, only after the primary model's last attempt failed with its retries
\* used up or with an error that is not retried, within a single run of the
\* retry policy, and no call of the primary model follows it.
C2_ModelFallback ==
  /\ Len(callLog) <= 6
  /\ \A i \in DOMAIN callLog :
       LET e == callLog[i]
       IN  e.phase = "fallback" =>
                /\ Truthy(fallback)
                /\ fallback # primary
                /\ e.model = fallback
                /\ i > 1
                /\ callLog[i - 1].phase = "primary" =>
                     /\ callLog[i - 1].outcome # "ok"
                     /\ ~RateLimitSignal(callLog[i - 1].outcome) \/ callLog[i - 1].attempt = 2
                /\ e.attempt = Cardinality({j \in 1..(i - 1) : callLog[j].phase = "fallback"})
                /\ e.attempt <= 2
                /\ \A j \in DOMAIN callLog : j > i => callLog[j].phase = "fallback"

\* both models were attempted three times
C2_SixAttempts ==
  /\ Len(callLog) = 6
  /\ callLog[3].phase = "primary"
  /\ callLog[4].phase = "fallback"
  /\ callLog[6].phase = "fallback"
  /\ callLog[6].model # callLog[1].model

\* some provider call of the request succeeded and its reply was used
CallSucceeded ==
  IF task = "facts" /\ adapter = "anthropic" THEN chunkMetas # <<>> ELSE message.present

\* C3: an orchestrator that was given a credential returns a result whatever
\* its provider calls do; the only exception that leaves an orchestrator is
\* the validation failure of digest composition; and when every attempt of
\* the primary and the fallback model failed, the result is the local
\* heuristic one.
C3_OrchestratorsAbsorbFailures ==
  /\ (pc = "done" /\ apiKey /\ result.status = "raised") =>
       /\ task = "digest"
       /\ result.raisedBy \in {"missing_subject_or_body", "body_too_short"}
  /\ (pc = "done" /\ netCalls > 0 /\ ~CallSucceeded) =>
       /\ result.status = "ok"
       /\ result.payload = "local_heuristic"

\* C4: a task invoked without its provider credential makes no provider call
\* and returns a locally computed result.
C4_NoCredentialLocalResult ==
  (task # "translate" /\ adapter # "none" /\ ~apiKey) =>
    /\ netCalls = 0
    /\ callLog = <<>>
    /\ pc = "done" =>
         /\ result.status = "ok"
         /\ result.payload # "model_output"

\* the task's input is empty, so that no provider call is needed
InputEmpty ==
  CASE task = "facts" -> Strip(input.text) = EmptyText
    [] task = "digest" -> input.n = 0
    [] task = "cluster_draft" -> input.n = 0 \/ Strip(input.text) = EmptyText
    [] task = "feed_rank" -> input.n = 0
    [] OTHER -> FALSE

\* C5: the llm.provider of a returned result names the path taken: a vendor
\* only when a provider call succeeded, "none" when no call was needed because
\* the input was empty, "local-dev" when no credential was configured, and
\* "local-fallback" when the provider calls were made and all failed.
C5_ProviderIdentifiesPath ==
  (pc = "done" /\ result.status = "ok") =>
    /\ result.provider \in {"anthropic", "google", "none", "local-dev", "local-fallback"}
    /\ result.provider \in {"anthropic", "google"} => CallSucceeded
    /\ CallSucceeded => result.provider = (IF adapter = "anthropic" THEN "anthropic" ELSE "google")
    /\ (netCalls > 0 /\ ~CallSucceeded) => result.provider = "local-fallback"
    /\ (netCalls = 0 /\ apiKey /\ InputEmpty) => result.provider = "none"
    /\ (netCalls = 0 /\ ~apiKey /\ ~InputEmpty) => result.provider = "local-dev"
    /\ (netCalls = 0 /\ ~apiKey /\ InputEmpty) => result.provider \in {"none", "local-dev"}

\* the subject and body a provider's composition extracts from its reply:
\* both read a JSON object, the Anthropic one also reads the two fields out
\* of a text that is no JSON object
ExtractedSubject ==
  IF message.shape = "json" \/ (adapter = "anthropic" /\ message.shape = "broken_json")
    THEN message.subject ELSE EmptyText
ExtractedBody ==
  IF message.shape = "json" \/ (adapter = "anthropic" /\ message.shape = "broken_json")
    THEN message.body ELSE EmptyText

\* C6: when the provider call of a digest composition returned a text, the
\* composition returns a digest exactly when the extracted subject is not
\* empty and the extracted body, trimmed, is at least 80 characters long, and
\* the digest carries that subject and the trimmed body; otherwise it raises.
\* The same holds for both providers.
C6_DigestValidation ==
  (pc = "done" /\ task = "digest" /\ message.present /\ message.shape # "no_content") =>
    LET valid == ExtractedSubject.len > 0 /\ ExtractedBody.len >= 80
    IN  /\ valid =>
             /\ result.status = "ok"
             /\ result.payload = "model_output"
             /\ result.subject = T(0, ExtractedSubject.len)
             /\ result.body = T(0, ExtractedBody.len)
        /\ ~valid => result.status = "raised"

\* the Gemini composition returned a digest whose body, once trimmed of the
\* whitespace around it, is exactly 80 characters long
C6_BodyOfEighty ==
  /\ pc = "done"
  /\ task = "digest"
  /\ adapter = "google"
  /\ message.body = T(1, 80)
  /\ result.status = "ok"
  /\ result.body = T(0, 80)

\* C7: a digest composition over an empty item list returns the fixed
\* "no items" digest at once, whatever the provider, the model and the
\* credential, and no provider call is made for it.
C7_EmptyDigest ==
  (task = "digest" /\ input.n = 0) =>
    /\ pc = "done"
    /\ netCalls = 0
    /\ callLog = <<>>
    /\ ~message.present
    /\ result.status = "ok"
    /\ result.payload = "fixed_no_items"

\* the Anthropic composition, holding a credential, returned the "no items"
\* digest
C7_EmptyDigestWithKey ==
  /\ pc = "done"
  /\ task = "digest"
  /\ input.n = 0
  /\ adapter = "anthropic"
  /\ apiKey
  /\ result.payload = "fixed_no_items"

\* the mode and summary limit the service in use builds for n items
BuiltFor(n) ==
  IF adapter = "google" THEN gemini_build_digest_input_sections(n)
  ELSE claude_build_digest_input_sections(n)

\* C8: a digest prompt over n >= 1 items is built in mode "items" when
\* n <= 80 and in mode "topic_grouped" when n >= 81; in mode "items" the
\* per-item summary limit is 450 up to 20 items, 240 up to 50 and 120 beyond,
\* and no smaller item count has a smaller limit; a result that reports an
\* input mode reports the mode its prompt was built in.
C8_DigestInputMode ==
  (task = "digest" /\ input.n >= 1) =>
    /\ digestInput.mode = (IF input.n <= 80 THEN "items" ELSE "topic_grouped")
    /\ digestInput.mode = "items" =>
         /\ digestInput.summary_limit =
              (IF input.n <= 20 THEN 450 ELSE IF input.n <= 50 THEN 240 ELSE 120)
         /\ \A k \in 1..input.n :
              /\ BuiltFor(k).mode = "items"
              /\ BuiltFor(k).summary_limit >= digestInput.summary_limit
    /\ (pc = "done" /\ result.input_mode # "") =>
         /\ result.input_mode = digestInput.mode
         /\ result.input_mode = (IF input.n <= 80 THEN "items" ELSE "topic_grouped")

\* a digest over 81 items was composed and reports the mode "topic_grouped"
C8_GroupedDigest ==
  /\ pc = "done"
  /\ task = "digest"
  /\ input.n = 81
  /\ result.status = "ok"
  /\ result.input_mode = "topic_grouped"

\* C9: a request is dispatched to the Gemini service exactly when its model
\* identifier is a Gemini one, so that no call to the Anthropic API carries a
\* Gemini model identifier and no call to the Gemini API any other.
C9_RouterDecidesAdapter ==
  /\ adapter = "anthropic" => ~is_gemini_model(reqModel)
  /\ adapter = "google" => is_gemini_model(reqModel)
  /\ \A i \in DOMAIN callLog :
       callLog[i].adapter = "anthropic" <=> ~is_gemini_model(callLog[i].model)

\* the built-in primary model of a task
BuiltinPrimary(t) ==
  CASE t = "facts" -> facts_model
    [] t = "summary" -> summary_model
    [] t \in {"digest", "cluster_draft"} -> digest_model
    [] OTHER -> feed_suggest_model

\* s is a prefix of t
IsPrefix(s, t) == Len(s) <= Len(t) /\ \A i \in DOMAIN s : s[i] = t[i]

\* a model identifier the services know: one of a priced family, or one of
\* the built-in models
RecognizedModel(m) ==
  LET segs == StripLower(m).segs
  IN  \/ \E f \in ClaudePricingFamilies \cup GeminiPricingFamilies : IsPrefix(f, segs)
      \/ m \in {facts_model, facts_model_fallback, summary_model, summary_model_fallback}

\* C10, as the specification states it: the primary model of a provider call
\* is the task's built-in primary model whenever the request's model override
\* is absent, empty or not a recognized identifier.
C10_UnrecognizedUsesBuiltin ==
  \A i \in DOMAIN callLog :
    (callLog[i].phase = "primary" /\ ~(Truthy(reqModel) /\ RecognizedModel(reqModel))) =>
      callLog[i].model = BuiltinPrimary(task)

\* C10, amended: the primary model of a provider call is the request's model
\* override whenever that is not empty, recognized or not: as given for an
\* Anthropic call, without surrounding whitespace and path prefix for a Gemini
\* call; it is the task's built-in primary model only when the override is
\* absent or empty.
C10_OverrideUsedAsGiven ==
  \A i \in DOMAIN callLog :
    callLog[i].phase = "primary" =>
      callLog[i].model =
        (IF ~Truthy(reqModel) THEN BuiltinPrimary(task)
         ELSE IF callLog[i].adapter = "anthropic" THEN reqModel
         ELSE Mk(TRUE, FALSE, "", reqModel.segs))

\* an Anthropic call was made with an override that is no recognized model
C10_UnrecognizedOverrideCalled ==
  /\ Len(callLog) >= 1
  /\ reqModel = MGpt
  /\ ~RecognizedModel(reqModel)
  /\ callLog[1].adapter = "anthropic"
  /\ callLog[1].phase = "primary"
  /\ callLog[1].model = MGpt

\* C11: the merge of N LlmMeta records, N >= 0, carries in each of its four
\* usage fields the sum of that field over the N records, and calls = N.
C11_MergeSumsAndCounts ==
  llmKind = "merged" =>
    /\ resultMeta.usage.input_tokens =
         SumSeq([i \in DOMAIN metaRecords |-> metaRecords[i].usage.input_tokens])
    /\ resultMeta.usage.output_tokens =
         SumSeq([i \in DOMAIN metaRecords |-> metaRecords[i].usage.output_tokens])
    /\ resultMeta.usage.cache_creation_input_tokens =
         SumSeq([i \in DOMAIN metaRecords |-> metaRecords[i].usage.cache_creation_input_tokens])
    /\ resultMeta.usage.cache_read_input_tokens =
         SumSeq([i \in DOMAIN metaRecords |-> metaRecords[i].usage.cache_read_input_tokens])
    /\ resultMeta.has_calls
    /\ resultMeta.calls = Len(metaRecords)

\* the merged records agree on provider, model, pricing family
AgreeOnProvider == \A i, j \in DOMAIN metaRecords : metaRecords[i].provider = metaRecords[j].provider
AgreeOnModel == \A i, j \in DOMAIN metaRecords : metaRecords[i].model = metaRecords[j].model
AgreeOnFamily ==
  \A i, j \in DOMAIN metaRecords :
    metaRecords[i].pricing_model_family = metaRecords[j].pricing_model_family

\* C12: in the merge of LlmMeta records, provider, model and pricing family
\* each equal the records' common value when the records agree on it, and
\* equal the sentinel ("mixed", "multiple", "mixed") exactly when two of the
\* records disagree on it.
C12_MergeCollapses ==
  llmKind = "merged" =>
    /\ (metaRecords # <<>> /\ AgreeOnProvider) => resultMeta.provider = metaRecords[1].provider
    /\ (metaRecords # <<>> /\ AgreeOnModel) => resultMeta.model = metaRecords[1].model
    /\ (metaRecords # <<>> /\ AgreeOnFamily) =>
         resultMeta.pricing_model_family = metaRecords[1].pricing_model_family
    /\ resultMeta.provider = "mixed" <=> ~AgreeOnProvider
    /\ resultMeta.model = MMultiple <=> ~AgreeOnModel
    /\ resultMeta.pricing_model_family = MMixed <=> ~AgreeOnFamily

\* two records of one provider and one pricing family but of two models
\* were merged
C12_SameFamilyTwoModels ==
  /\ llmKind = "merged"
  /\ Len(metaRecords) = 2
  /\ resultMeta.provider = "anthropic"
  /\ resultMeta.model = MMultiple
  /\ resultMeta.pricing_model_family = facts_model

\* the rates the pricing lookup returns for a record's model and purpose
LookupRates(rec) ==
  IF rec.provider = "google" THEN gemini_pricing_for_model(env, rec.model, metaPurpose).rates
  ELSE claude_pricing_for_model(env, rec.model, metaPurpose).rates

\* the sum over the usage fields of usage / 1e6 times the rate, rounded to
\* 8 decimal places
CostAtRates(usage, rates) ==
  Round8(TokenCost(usage.input_tokens, rates.input)
           + TokenCost(usage.output_tokens, rates.output)
           + TokenCost(usage.cache_creation_input_tokens, rates.cache_write)
           + TokenCost(usage.cache_read_input_tokens, rates.cache_read))

\* C13, as the specification states it: the estimated cost of every LlmMeta
\* attached to a result (of one call, merged, or local) is the sum over the
\* usage fields of usage / 1e6 times the rate the pricing lookup returns for
\* the record's model and purpose, rounded to 8 decimal places.
C13_CostFromLookup ==
  llmKind # "none" =>
    resultMeta.estimated_cost_usd = CostAtRates(resultMeta.usage, LookupRates(resultMeta))

\* the Gemini families with a second tier and its input and output rates
SecondTier(family) ==
  CASE family \in {<<"gemini", "3.1", "pro", "preview">>, <<"gemini", "3", "pro", "preview">>} ->
         Rates(4000, 18000, 0, 0)
    [] family = <<"gemini", "2.5", "pro">> -> Rates(2500, 15000, 0, 0)
    [] OTHER -> ZeroRates

\* a Gemini record of a family with a second tier, above 200,000 input tokens
InSecondTier(rec) ==
  /\ rec.provider = "google"
  /\ SecondTier(rec.pricing_model_family.segs) # ZeroRates
  /\ rec.usage.input_tokens > 200000

\* the cost of the record of one provider call
CostOfCall(rec) ==
  CostAtRates(rec.usage,
              IF InSecondTier(rec) THEN SecondTier(rec.pricing_model_family.segs) ELSE LookupRates(rec))

\* C13, amended: the estimated cost of the LlmMeta of one provider call is the
\* sum over the usage fields of usage / 1e6 times the rate, rounded to 8
\* decimal places, the rates being those the pricing lookup returns for the
\* record's model and purpose, or the second-tier rates for a Gemini record
\* of a tiered family above 200,000 input tokens; the cost of a merged record
\* is the sum of the costs of the merged records; the cost of a local record
\* is 0.
C13_CostOfRecords ==
  /\ \A i \in DOMAIN metaRecords : metaRecords[i].estimated_cost_usd = CostOfCall(metaRecords[i])
  /\ llmKind = "single" => resultMeta.estimated_cost_usd = CostOfCall(resultMeta)
  /\ llmKind = "merged" =>
       resultMeta.estimated_cost_usd =
         SumSeq([i \in DOMAIN metaRecords |-> metaRecords[i].estimated_cost_usd])
  /\ llmKind = "local" => resultMeta.estimated_cost_usd = 0 /\ resultMeta.usage = NoUsage

\* records of two models with a cost were merged
C13_MergedCostOfTwoModels ==
  /\ llmKind = "merged"
  /\ resultMeta.model = MMultiple
  /\ resultMeta.provider = "anthropic"
  /\ resultMeta.usage.cache_read_input_tokens > 0
  /\ resultMeta.estimated_cost_usd > 0

\* the estimated cost the record's service computes for the record's model
\* and purpose and the usage u
CostFor(rec, u) ==
  IF rec.provider = "google" THEN gemini_estimate_cost_usd(env, rec.model, metaPurpose, u)
  ELSE claude_estimate_cost_usd(env, rec.model, metaPurpose, u)

\* the usage records that exceed u by one token in one field
OneMore(u) ==
  {[u EXCEPT !.input_tokens = @ + 1], [u EXCEPT !.output_tokens = @ + 1],
   [u EXCEPT !.cache_creation_input_tokens = @ + 1], [u EXCEPT !.cache_read_input_tokens = @ + 1]}

\* C14: under every pricing (defaults, environment overrides, tiers) the
\* estimated cost of a usage record is not negative, is the same for the same
\* model, purpose and usage, and does not decrease when one usage field grows
\* while the others stay.
C14_CostMonotone ==
  \A i \in DOMAIN metaRecords :
    LET rec == metaRecords[i]
    IN  /\ rec.estimated_cost_usd >= 0
        /\ rec.estimated_cost_usd = CostFor(rec, rec.usage)
        /\ \A j \in DOMAIN metaRecords :
             (metaRecords[j].provider = rec.provider /\ metaRecords[j].model = rec.model
                /\ metaRecords[j].usage = rec.usage) =>
               metaRecords[j].estimated_cost_usd = rec.estimated_cost_usd
        /\ \A u \in OneMore(rec.usage) : CostFor(rec, u) >= rec.estimated_cost_usd

\* the last record built
LastRecord == metaRecords[Len(metaRecords)]

\* the known families of the record's provider
KnownFamilies(rec) ==
  IF rec.provider = "google" THEN GeminiPricingFamilies ELSE ClaudePricingFamilies

\* the default rates of a family of the record's provider
DefaultRates(rec, family) ==
  IF rec.provider = "google" THEN GeminiDefaultPricing(family) ELSE ClaudeDefaultPricing(family)

\* the known families that equal the record's model (without its vendor path
\* prefix) or are a prefix of it followed by "-"
FamiliesOf(rec) ==
  {f \in KnownFamilies(rec) : IsPrefix(f, rec.model.segs)}

\* the environment variables of the record's provider and purpose
OverridesOf(rec) == env[IF rec.provider = "google" THEN "GEMINI" ELSE "ANTHROPIC"][metaPurpose]

\* the rate fields of the record's provider
RateFieldsOf(rec) == IF rec.provider = "google" THEN {"input", "output"} ELSE RateFields

C16_OverridesPerField ==
  metaRecords # <<>> =>
    LET rec == LastRecord
        overridden == {field \in RateFieldsOf(rec) : OverridesOf(rec)[field].raw = "number"}
    IN  /\ \A field \in RateFieldsOf(rec) :
             pricing.rates[field] =
               (IF field \in overridden THEN OverridesOf(rec)[field].num
                ELSE DefaultRates(rec, rec.pricing_model_family.segs)[field])
        /\ pricing.pricing_source = "env_override" <=> overridden # {}
        /\ overridden = {} =>
             pricing.pricing_source =
               (IF rec.provider = "google" THEN "google_aistudio_static_2026_02"
                ELSE "anthropic_static_2026_02")
        /\ rec.pricing_source = pricing.pricing_source

\* an entry with one rate overridden, one set to "" and so left at its default
C16_OneFieldOverridden ==
  /\ metaRecords # <<>>
  /\ LastRecord.provider = "anthropic"
  /\ OverridesOf(LastRecord)["input"].raw = "empty"
  /\ pricing.pricing_source = "env_override"
  /\ pricing.rates.output = 125
  /\ pricing.rates.input = 1000

\* C17: the cost of a Gemini call is computed with the second-tier input and
\* output rates when the family is a tiered one and input_tokens is above
\* 200,000, and with the rates of the pricing lookup in every other case, a
\* prompt of exactly 200,000 tokens and every family without tiers included.
C17_SecondTier ==
  \A i \in DOMAIN metaRecords :
    LET rec == metaRecords[i]
        family == rec.pricing_model_family.segs
        tiered == family \in {<<"gemini", "3.1", "pro", "preview">>, <<"gemini", "3", "pro", "preview">>,
                              <<"gemini", "2.5", "pro">>}
    IN  rec.provider = "google" =>
          rec.estimated_cost_usd =
            (IF tiered /\ rec.usage.input_tokens > 200000
               THEN CostAtRates(rec.usage, SecondTier(family))
               ELSE CostAtRates(rec.usage, LookupRates(rec)))

\* a call of a tiered family with exactly 200,000 input tokens was priced at
\* the base rates
C17_AtThreshold ==
  /\ metaRecords # <<>>
  /\ env = NoOverrides
  /\ LastRecord.provider = "google"
  /\ LastRecord.pricing_model_family.segs = <<"gemini", "2.5", "pro">>
  /\ LastRecord.usage = Usage(200000, 1, 0, 0)
  /\ LastRecord.estimated_cost_usd = 25001000

\* a merge has returned
MergeReturned == factsPc \in {"merged", "remerged"}

\* the number of facts of the lists merged
RECURSIVE FactCount(_)
FactCount(lists) == IF lists = <<>> THEN 0 ELSE Len(Head(lists)) + FactCount(Tail(lists))

\* C18: the merge of the fact lists returns at most max_items facts (24 in
\* fact extraction), and reads no fact of its input after the one that
\* reaches max_items.
C18_MergeCap ==
  MergeReturned =>
    /\ Len(mergedFacts) <= maxItems
    /\ Len(mergedFacts) = maxItems =>
         factsRead[Len(factsRead)] = mergedFrom[Len(mergedFrom)]

\* the extraction's merge returned 24 facts and left facts of its input unread
C18_CapReachedInExtraction ==
  /\ factsPc = "merged"
  /\ maxItems = FactsMaxItems
  /\ Len(mergedFacts) = 24
  /\ Len(factsRead) < FactCount(mergeInput)

\* a list of facts without surrounding whitespace, none empty, no two the
\* same up to case and whitespace
Normalized(xs) ==
  /\ \A i \in DOMAIN xs : ~xs[i].pad /\ xs[i].word # 0
  /\ \A i, j \in DOMAIN xs : i # j => xs[i].word # xs[j].word

\* C19: the merge of the single list a merge returned is that list; the merge
\* of a single list of at most max_items facts, stripped, non-empty and free
\* of duplicates, is that list.
C19_MergeIdempotent ==
  /\ factsPc = "remerged" => mergedFacts = mergeInput[1]
  /\ /\ factsPc = "merged"
     /\ Len(mergeInput) = 1
     /\ Normalized(mergeInput[1])
     /\ Len(mergeInput[1]) <= maxItems
     => mergedFacts = mergeInput[1]

\* a merged list of two facts, one with capital letters and wide spaces, was
\* merged again
C19_MergedAgain ==
  /\ factsPc = "remerged"
  /\ Len(mergedFacts) = 2
  /\ mergedFacts[1].upper
  /\ mergedFacts[1].wide

\* C20: in the list the extraction's merge returns, the fact taken from
\* position i of chunk a precedes the fact taken from position j of chunk b
\* whenever i < j, or i = j and a < b, the chunks being numbered by the idx
\* of the extraction's loop.
C20_RoundRobin ==
  factsPc = "merged" =>
    /\ Len(mergedFrom) = Len(mergedFacts)
    /\ \A p \in DOMAIN mergedFacts :
         LET facts == mergeInput[mergedFrom[p].list]
             text == facts[mergedFrom[p].i + 1]
         IN  /\ mergedFacts[p].word = text.word
             /\ mergedFacts[p].upper = text.upper
             /\ mergedFacts[p].wide = text.wide
    /\ \A p, q \in DOMAIN mergedFacts :
         LET i == mergedFrom[p].i
             a == listChunk[mergedFrom[p].list]
             j == mergedFrom[q].i
             b == listChunk[mergedFrom[q].list]
         IN  (i < j \/ (i = j /\ a < b)) <=> p < q

\* the second chunk failed; the facts of the first and the third alternate
C20_ChunksOneAndThree ==
  /\ factsPc = "merged"
  /\ listChunk = <<1, 3>>
  /\ Len(mergedFacts) >= 3
  /\ mergedFrom[1] = [i |-> 0, list |-> 1]
  /\ mergedFrom[2] = [i |-> 0, list |-> 2]
  /\ mergedFrom[3] = [i |-> 1, list |-> 1]

\* the positions (list, and index from 1) of the facts of the lists merged
InputPositions ==
  {pos \in (DOMAIN mergeInput) \X (1..MaxLen(mergeInput)) : pos[2] <= Len(mergeInput[pos[1]])}

\* the same text up to case and runs of whitespace
SameKey(f, g) == f.word = g.word

\* the text without its surrounding whitespace
Trimmed(f, g) ==
  IF g.word = 0 THEN f.word = 0
  ELSE f.word = g.word /\ f.upper = g.upper /\ f.wide = g.wide /\ ~f.pad

\* C21: in a merged fact list no two facts are equal after lower-casing and
\* collapsing whitespace, no fact is empty, every fact is the trimmed text of
\* a fact of the input, and of the facts of the input with one key the one
\* kept is the first in round-robin order.
C21_MergedFactsDistinct ==
  MergeReturned =>
    /\ \A p, q \in DOMAIN mergedFacts : p # q => ~SameKey(mergedFacts[p], mergedFacts[q])
    /\ \A p \in DOMAIN mergedFacts : mergedFacts[p].word # 0
    /\ \A p \in DOMAIN mergedFacts :
         \E pos \in InputPositions :
           /\ Trimmed(mergedFacts[p], mergeInput[pos[1]][pos[2]])
           /\ \A other \in InputPositions :
                SameKey(mergeInput[other[1]][other[2]], mergedFacts[p]) =>
                  \/ other[2] > pos[2]
                  \/ other[2] = pos[2] /\ other[1] >= pos[1]

\* "fact one" of the second chunk's reply was kept, "Fact  ONE" at the second
\* place of the first chunk's reply was dropped
C21_FirstOfTwoKept ==
  /\ factsPc = "merged"
  /\ Len(mergeInput) = 2
  /\ mergeInput[1] = <<Fact(2, FALSE, FALSE, FALSE), Fact(1, FALSE, TRUE, TRUE)>>
  /\ mergeInput[2] = <<Fact(1, FALSE, FALSE, FALSE)>>
  /\ mergedFacts = <<Fact(2, FALSE, FALSE, FALSE), Fact(1, FALSE, FALSE, FALSE)>>

\* _split_text_chunks has returned
SplitDone == splitPc = "done"

\* C22: with 0 <= overlap_chars < chunk_chars, the chunks of a stripped text
\* of length n cover every index 0..n-1, consecutive chunks overlap by exactly
\* overlap_chars characters, every chunk has at most chunk_chars characters
\* and only the last may have fewer; a text of at most chunk_chars characters
\* gives one chunk, an empty text none.
C22_ChunksCover ==
  (SplitDone /\ splitSize.overlap_chars < splitSize.chunk_chars) =>
    LET n == splitText.len
        c == splitSize.chunk_chars
        o == splitSize.overlap_chars
        k == Len(splitChunks)
    IN  /\ n = 0 => k = 0
        /\ (n > 0 /\ n <= c) => splitChunks = << <<0, n>> >>
        /\ n > 0 => /\ splitChunks[1][1] = 0
                    /\ splitChunks[k][2] = n
        /\ \A x \in 0..(n - 1) : \E i \in 1..k : splitChunks[i][1] <= x /\ x < splitChunks[i][2]
        /\ \A i \in 1..(k - 1) : splitChunks[i][2] - splitChunks[i + 1][1] = o
        /\ \A i \in 1..k : /\ splitChunks[i][2] - splitChunks[i][1] <= c
                           /\ i < k => splitChunks[i][2] - splitChunks[i][1] = c
        /\ splitChunks = split_text_chunks(splitText, c, o)

\* a text of 9 characters was cut into chunks of 4 overlapping by 1, the last
\* one shorter
C22_ThreeChunks ==
  /\ SplitDone
  /\ splitSize = [chunk_chars |-> 4, overlap_chars |-> 1]
  /\ splitChunks = << <<0, 4>>, <<3, 7>>, <<6, 9>> >>

\* C28: for every chunk_chars >= 1 and overlap_chars >= 0, overlap_chars >=
\* chunk_chars included, each chunk starts after the one before it and before
\* the end of the text, and the next start lies after the last chunk's: the
\* loop makes at most as many turns as the text has characters.
C28_StartsIncrease ==
  /\ \A i \in 1..(Len(splitChunks) - 1) : splitChunks[i][1] < splitChunks[i + 1][1]
  /\ \A i \in DOMAIN splitChunks : splitChunks[i][1] < splitN
  /\ Len(splitChunks) <= splitN
  /\ (splitPc = "loop" /\ splitChunks # <<>>) => splitStart > splitChunks[Len(splitChunks)][1]

\* with overlap_chars above chunk_chars the chunks advanced by one character
C28_OverlapAboveChunk ==
  /\ SplitDone
  /\ splitSize = [chunk_chars |-> 2, overlap_chars |-> 5]
  /\ splitChunks = << <<0, 2>>, <<1, 3>>, <<2, 4>> >>

\* the lengths of a summary were computed
LengthsDone == sumPc = "done" /\ sumLengths.target_chars > 0

\* x clamped into lo..hi
ClampedInto(x, lo, hi) == IF x < lo THEN lo ELSE IF x > hi THEN hi ELSE x

\* the integer nearest to num / den, which is no half
Nearest(num, den) == CHOOSE q \in 0..num : 2 * den * q - den < 2 * num /\ 2 * num < 2 * den * q + den

\* C23: with a positive source_text_chars n the target is round(0.16 n)
\* clamped into 220..1200, min_chars and max_chars are round(0.8 target) and
\* round(1.2 target) clamped into 160..1000 and 260..1400, so that n = 5000
\* gives 800, 640 and 960; whatever the input, min_chars <= target <=
\* max_chars.
C23_SummaryLengths ==
  LengthsDone =>
    LET n == sumSource.val
        l == sumLengths
    IN  /\ (sumSource.some /\ n > 0) =>
             /\ l.target_chars = ClampedInto(Nearest(16 * n, 100), 220, 1200)
             /\ l.min_chars = ClampedInto(Nearest(8 * l.target_chars, 10), 160, 1000)
             /\ l.max_chars = ClampedInto(Nearest(12 * l.target_chars, 10), 260, 1400)
        /\ (sumSource.some /\ n = 5000) =>
             l = [target_chars |-> 800, min_chars |-> 640, max_chars |-> 960]
        /\ l.min_chars <= l.target_chars
        /\ l.target_chars <= l.max_chars

\* an article of 5000 characters
C23_FiveThousand ==
  /\ LengthsDone
  /\ sumSource = IntArg(5000)
  /\ sumLengths.target_chars = 800

\* the scores of a result were computed
ScoresDone == sumPc \in {"done", "local"} /\ sumLengths.target_chars = 0

\* C24: in a summary result every component of score_breakdown lies in 0..1,
\* and is 0.5 when the reply has no value or no number for it; score is the
\* sum of the components weighted 0.38, 0.22, 0.18, 0.17 and 0.05, rounded to
\* 4 decimal places, and lies in 0..1; components all 1 give 1, all 0 give 0.
C24_ScoreInUnitInterval ==
  ScoresDone =>
    /\ \A k \in ScoreKeys :
         /\ ~scoreBreakdown[k].nan
         /\ 0 <= scoreBreakdown[k].val /\ scoreBreakdown[k].val <= 1000
         /\ (sumPc = "done" /\ scoreRaw[k].kind \in {"missing", "text"}) => scoreBreakdown[k].val = 500
    /\ ~scoreValue.nan
    /\ 0 <= scoreValue.val /\ scoreValue.val <= 10000
    /\ LET total == 38 * scoreBreakdown["importance"].val + 22 * scoreBreakdown["novelty"].val
                      + 18 * scoreBreakdown["actionability"].val + 17 * scoreBreakdown["reliability"].val
                      + 5 * scoreBreakdown["relevance"].val
       IN  /\ 10 * scoreValue.val - total <= 5
           /\ total - 10 * scoreValue.val <= 5
    /\ (\A k \in ScoreKeys : scoreBreakdown[k] = Num(1000)) => scoreValue = Num(10000)
    /\ (\A k \in ScoreKeys : scoreBreakdown[k] = Num(0)) => scoreValue = Num(0)

\* C25: whatever lists the caller supplies, the prompt of the cluster draft,
\* of the feed ranking and of the feed seeds, on either provider, holds at most
\* 20 existing sources or source lines, at most 20 candidates and at most 12
\* topics.
C25_PromptListsBounded ==
  listsPrompt.made =>
    /\ listsPrompt.sources <= 20
    /\ listsPrompt.candidates <= 20
    /\ listsPrompt.topics <= 12

\* C26: the LlmMeta of every result, of a successful call or of a fallback,
\* holds provider, model, pricing family, pricing source, the four usage
\* counters, the estimated cost and the purpose; the counters are not
\* negative; they and the cost are zero when no provider call succeeded; the
\* two cache counters of a Gemini record are zero.
C26_LlmMetaComplete ==
  llmKind # "none" =>
    /\ resultMeta.has_pricing
    /\ resultMeta.has_purpose
    /\ resultMeta.usage.input_tokens >= 0
    /\ resultMeta.usage.output_tokens >= 0
    /\ resultMeta.usage.cache_creation_input_tokens >= 0
    /\ resultMeta.usage.cache_read_input_tokens >= 0
    /\ metaRecords = <<>> => (resultMeta.usage = NoUsage /\ resultMeta.estimated_cost_usd = 0)
    /\ resultMeta.provider = "google" =>
         /\ resultMeta.usage.cache_creation_input_tokens = 0
         /\ resultMeta.usage.cache_read_input_tokens = 0

\* a chunked fact extraction with a credential has ended
ChunkedExtractionDone ==
  pc = "done" /\ task = "facts" /\ adapter = "anthropic" /\ apiKey /\ chunkCount > 0

\* the chunks whose call returned a message
SucceededChunks == {i \in DOMAIN chunkLog : chunkLog[i].ok}

\* C27: a chunked fact extraction with a credential returns the lines of the
\* raw text when and only when the call of every chunk failed; when the call
\* of some chunk succeeded every chunk was called, the facts are those of the
\* chunks whose call succeeded, chunk_success_count is their number and the
\* calls of the merged LlmMeta, and is at most chunk_count.
C27_ChunkFallback ==
  ChunkedExtractionDone =>
    /\ result.status = "ok"
    /\ (result.provider = "local-fallback" /\ result.payload = "local_heuristic") <=> SucceededChunks = {}
    /\ SucceededChunks # {} =>
         /\ Len(chunkLog) = chunkCount
         /\ \A i \in DOMAIN chunkLog : chunkLog[i].idx = i /\ (chunkLog[i].appended <=> chunkLog[i].ok)
         /\ result.chunk_success_count = Cardinality(SucceededChunks)
         /\ result.calls = result.chunk_success_count
         /\ result.chunk_success_count <= result.chunk_count
         /\ result.chunk_count = chunkCount

\* a result built from the message of one successful call of the Anthropic
\* adapter came back
AnsweredResult ==
  /\ pc = "done" /\ adapter = "anthropic" /\ task # "facts"
  /\ result.status = "ok" /\ result.provider = "anthropic"

\* the model the call that returned the message was made with
AnsweringModel == IF phase = "fallback" THEN fallback ELSE primary

\* the chunks of a fact extraction whose facts were appended
AppendedChunks == SelectSeq(chunkLog, LAMBDA e : e.appended)

\* C29: the model of an LlmMeta built from a successful call is the model
\* that answered, and so is the pricing family the cost is computed with:
\* the fallback model and its family when the primary model failed and the
\* fallback model answered, the primary model and its family when the primary
\* model answered.  In a chunked fact extraction this holds of the LlmMeta of
\* each chunk.
C29_RecordedModelAnswered ==
  /\ AnsweredResult =>
       /\ result.model = AnsweringModel
       /\ claude_normalize_model_family(result.model) = claude_normalize_model_family(AnsweringModel)
       /\ phase = "fallback" => result.model = fallback /\ result.model # primary
       /\ phase = "primary" => result.model = primary
  /\ (adapter = "anthropic" /\ task = "facts") =>
       /\ Len(chunkMetas) = Len(AppendedChunks)
       /\ \A i \in DOMAIN chunkMetas :
            /\ chunkMetas[i] = AppendedChunks[i].model
            /\ AppendedChunks[i].ok

\* the primary model failed and the fallback model answered
C29_FallbackAnswered ==
  /\ AnsweredResult
  /\ phase = "fallback"
  /\ result.model = fallback
  /\ claude_normalize_model_family(fallback) # claude_normalize_model_family(primary)

\* extract_body has returned
ExtractReturned == extractPc \in {"returned", "responded"}

\* the fetch failed, or neither bare_extraction nor the fallback found text
ExtractFailed ==
  \/ extractSeen.fetch = "failed"
  \/ extractSeen.extraction \in {"failed", "blank"} /\ downloaded.body # "text"

\* C30: extract_body returns None or a record, never an exception; the
\* content of a record is not blank; a failed fetch, a failed extraction and
\* an empty extraction are returned as None, or as the placeholder when the
\* switch is on; bare_extraction is called at most once; the endpoint answers
\* None with 422.
C30_ExtractBodyNeverBlank ==
  /\ ExtractReturned =>
       /\ extractResult.kind \in {"None", "record"}
       /\ extractResult.kind = "record" => extractResult.content \in {"text", "placeholder"}
       /\ ExtractFailed =>
            \/ extractResult.kind = "None"
            \/ extractEnv /\ extractResult.content = "placeholder"
       /\ extractResult.content = "placeholder" => extractEnv
       /\ extractSeen.bare_extraction <= 1 /\ extractSeen.fetch_url <= 1 /\ extractSeen.httpx_get <= 1
  /\ extractPc = "responded" => (extractResponse = 422 <=> extractResult.kind = "None")

====
